---- MODULE Spec2Model ----
(***************************************************************************)
(* Model of the claim store of cnab-go (package claim): the four record    *)
(* kinds Installation / Claim / Result / Output kept in a backing          *)
(* key/group/item store, the write path that derives Installation.Status,  *)
(* the derived "last" reads and the cascading deletes.                     *)
(*                                                                         *)
(* Strings are sequences of character codes (ASCII), compared the way Go   *)
(* compares strings: lexicographically, byte by byte.                      *)
(***************************************************************************)
EXTENDS Integers, Sequences, FiniteSets, TLC

----------------------------------------------------------------------------
(* Bounds of the model. *)

\* number of store operations a sequential history adds to its starting point
MaxOps == 2
\* number of store calls each concurrent caller makes
MaxCalls == 1

----------------------------------------------------------------------------
(* Strings. *)

Dash == 45
Slash == 47

\* Go's string comparison a < b
RECURSIVE StrLess(_, _)
StrLess(a, b) ==
  IF b = << >> THEN FALSE
  ELSE IF a = << >> THEN TRUE
  ELSE IF Head(a) # Head(b) THEN Head(a) < Head(b)
  ELSE StrLess(Tail(a), Tail(b))

HasPrefix(s, p) == Len(s) >= Len(p) /\ SubSeq(s, 1, Len(p)) = p

\* TrimPrefix that strips the prefix as often as the string starts with it
RECURSIVE TrimPrefix_Repeated(_, _)
TrimPrefix_Repeated(s, p) ==
  IF p # << >> /\ HasPrefix(s, p)
  THEN TrimPrefix_Repeated(SubSeq(s, Len(p) + 1, Len(s)), p)
  ELSE s

\* strings.TrimPrefix
TrimPrefix(s, p) == IF HasPrefix(s, p) THEN SubSeq(s, Len(p) + 1, Len(s)) ELSE s

\* sort.Sort on a short slice is an insertion sort by adjacent swaps; the
\* elements are [key, val] pairs and Less compares the keys as strings
SeqSwap(s, i, j) == [s EXCEPT ![i] = s[j], ![j] = s[i]]

RECURSIVE SinkDown(_, _)
SinkDown(s, j) ==
  IF j > 1 /\ StrLess(s[j].key, s[j - 1].key)
  THEN SinkDown(SeqSwap(s, j, j - 1), j - 1)
  ELSE s

RECURSIVE InsertionSort(_, _)
InsertionSort(s, i) ==
  IF i > Len(s) THEN s ELSE InsertionSort(SinkDown(s, i), i + 1)

SortByKey(s) == InsertionSort(s, 2)

\* sort.Strings left out: the strings as they come
SortStrings_AsListed(s) == s

\* sort.Strings
SortStrings(s) ==
  LET sorted == SortByKey([i \in DOMAIN s |-> [key |-> s[i], val |-> s[i]]])
  IN [i \in DOMAIN s |-> sorted[i].val]

\* some listing of a set, in an order the caller must not rely on
RECURSIVE SetToSeq(_)
SetToSeq(S) ==
  IF S = {} THEN << >>
  ELSE LET x == CHOOSE y \in S : TRUE IN <<x>> \o SetToSeq(S \ {x})

Reverse(s) == [i \in DOMAIN s |-> s[Len(s) + 1 - i]]

Range(s) == {s[i] : i \in DOMAIN s}

----------------------------------------------------------------------------
(* Finite maps. *)

EmptyMap == << >>
Put(f, k, v) == [x \in (DOMAIN f) \cup {k} |-> IF x = k THEN v ELSE f[x]]
Remove(f, k) == [x \in (DOMAIN f) \ {k} |-> f[x]]

----------------------------------------------------------------------------
(* Errors. *)

Nil == "nil"
ErrRecordDoesNotExist == "File does not exist"
ErrInstallationNotFound == "Installation does not exist"
ErrClaimNotFound == "Claim does not exist"
ErrResultNotFound == "Result does not exist"
ErrOutputNotFound == "Output does not exist"
ErrNoResults == "claim has no results"
ErrDecrypt == "error decrypting"

ItemTypeInstallations == "installations"
ItemTypeClaims == "claims"
ItemTypeResults == "results"
ItemTypeOutputs == "outputs"
ItemTypes == {ItemTypeInstallations, ItemTypeClaims, ItemTypeResults, ItemTypeOutputs}

NamespaceGlobal == << >>

----------------------------------------------------------------------------
(* State. *)

VARIABLES
  store,              \* the backing store: item type -> key -> [group, data],
                      \* and failing: the calls it fails
  emptyGroupIsError,  \* the backing store reports an empty group by ErrRecordDoesNotExist
  listReversed,       \* which of two listing orders the backing store uses
  crypto,             \* the encryption pair handed to NewClaimStore
  last,               \* the store operation that returned last, with what it returned
  recording,          \* whether the history keeps last up to date
  ops,                \* number of operations of the sequential history
  pc, call, held, local, calls, inst0,  \* concurrent callers of SaveClaim / SaveResult
  driver              \* a call of the Kubernetes driver: its position, its locals, the
                      \* objects of the cluster and the calls the clients received

vars == <<store, emptyGroupIsError, listReversed, crypto, last, recording, ops,
          pc, call, held, local, calls, inst0, driver>>
backing == <<emptyGroupIsError, listReversed, crypto>>
concVars == <<pc, call, held, local, calls, inst0, driver>>

----------------------------------------------------------------------------
(* The backing store (crud.ManagedStore) and the encryption handlers. *)

EmptyStore ==
  [t \in ItemTypes \cup {"failing"} |-> IF t = "failing" THEN {} ELSE EmptyMap]

\* an error of the backing store other than ErrRecordDoesNotExist
ErrBackingStoreFailure == "backing store failure"

\* the error of a backing store that cannot connect
ErrConnectFailure == "connect failure"

\* whether the backing store fails to connect
ConnectFault == <<"Connect", "">>
ConnectFails(st) == ConnectFault \in st["failing"]

\* whether the backing store fails the calls of this kind on this item type:
\* every call connects for its own time when no connection is open
Fails(st, backingCall, itemType) ==
  ConnectFails(st) \/ <<backingCall, itemType>> \in st["failing"]

\* the error of a call that fails
FailureOf(st) == IF ConnectFails(st) THEN ErrConnectFailure ELSE ErrBackingStoreFailure

GroupKeys(st, itemType, group) ==
  {k \in DOMAIN st[itemType] : st[itemType][k].group = group}

\* List(kind, group): the keys of the group, in no particular order
BackingList(st, itemType, group) ==
  LET keys == GroupKeys(st, itemType, group) IN
  IF Fails(st, "List", itemType) THEN [err |-> FailureOf(st), val |-> << >>]
  ELSE IF keys = {} /\ emptyGroupIsError
  THEN [err |-> ErrRecordDoesNotExist, val |-> << >>]
  ELSE [err |-> Nil,
        val |-> IF listReversed THEN Reverse(SetToSeq(keys)) ELSE SetToSeq(keys)]

\* Read(kind, key)
BackingRead(st, itemType, key) ==
  IF Fails(st, "Read", itemType) THEN [err |-> FailureOf(st), val |-> Nil]
  ELSE IF key \in DOMAIN st[itemType]
  THEN [err |-> Nil, val |-> st[itemType][key].data]
  ELSE [err |-> ErrRecordDoesNotExist, val |-> Nil]

\* ReadAll(kind, group): the records of the group, in no particular order
BackingReadAll(st, itemType, group) ==
  LET keys == BackingList([st EXCEPT !["failing"] = {}], itemType, group) IN
  IF Fails(st, "ReadAll", itemType) THEN [err |-> FailureOf(st), val |-> << >>]
  ELSE [err |-> keys.err,
        val |-> [i \in DOMAIN keys.val |-> st[itemType][keys.val[i]].data]]

\* Save(kind, group, key, bytes): upsert
BackingSave(st, itemType, group, key, data) ==
  IF Fails(st, "Save", itemType) THEN [err |-> FailureOf(st), st |-> st]
  ELSE [err |-> Nil,
        st |-> [st EXCEPT ![itemType] = Put(@, key, [group |-> group, data |-> data])]]

\* Delete(kind, key)
BackingDelete(st, itemType, key) ==
  IF Fails(st, "Delete", itemType) THEN [err |-> FailureOf(st), st |-> st]
  ELSE IF key \in DOMAIN st[itemType]
  THEN [err |-> Nil, st |-> [st EXCEPT ![itemType] = Remove(@, key)]]
  ELSE [err |-> ErrRecordDoesNotExist, st |-> st]

\* bytes are [json |-> fields] for a serialized document, [raw |-> value] for
\* an output value and [cipher |-> bytes] for the image of the encoding handler
IsCipher(b) == "cipher" \in DOMAIN b

NoOpEncryptionHandler(b) == [err |-> Nil, val |-> b]
b64encode(b) == [err |-> Nil, val |-> [cipher |-> b]]
b64decode(b) ==
  IF IsCipher(b) THEN [err |-> Nil, val |-> b.cipher] ELSE [err |-> ErrDecrypt, val |-> b]

Encrypt(b) == IF crypto = "b64" THEN b64encode(b) ELSE NoOpEncryptionHandler(b)
Decrypt(b) == IF crypto = "b64" THEN b64decode(b) ELSE NoOpEncryptionHandler(b)

\* crud.SaveDocument: serialize, encrypt iff ShouldEncrypt, write
SaveDocument(st, doc) ==
  LET data == IF doc.encrypt THEN Encrypt(doc.data) ELSE [err |-> Nil, val |-> doc.data] IN
  IF data.err # Nil THEN [err |-> data.err, st |-> st]
  ELSE BackingSave(st, doc.type, doc.group, doc.name, data.val)

----------------------------------------------------------------------------
(* The documents. *)

EmptyString == << >>

\* InstallationKey(namespace, name)
InstallationKey(namespace, name) ==
  IF namespace = EmptyString THEN name ELSE namespace \o <<Slash>> \o name

EmptyStatus ==
  [ClaimID |-> EmptyString, Action |-> "", Revision |-> "",
   ResultID |-> EmptyString, ResultStatus |-> ""]

ActionInstall == "install"
ActionUpgrade == "upgrade"
ActionUninstall == "uninstall"

StatusRunning == "running"
StatusSucceeded == "succeeded"
StatusFailed == "failed"
StatusUnknown == "unknown"

\* Claim.IsModifyingAction: the built-in modifying actions, or a custom
\* action the bundle declares as modifying
IsModifyingAction(c) ==
  \/ c.Action \in {ActionInstall, ActionUpgrade, ActionUninstall}
  \/ c.Action \in c.Bundle.Modifies

InstallationDoc(i) ==
  [type |-> ItemTypeInstallations, group |-> i.Namespace,
   name |-> InstallationKey(i.Namespace, i.Name), data |-> [json |-> i], encrypt |-> FALSE]

ClaimDoc(c) ==
  [type |-> ItemTypeClaims, group |-> c.Installation, name |-> c.ID,
   data |-> [json |-> c], encrypt |-> TRUE]

\* Result.claim is a pointer: << >> is nil, <<c>> points to the claim c
NilClaim == << >>

\* OutputMetadata: the pairs of an output name and what is recorded of it
NoMetadata == {}

\* the claim reference of a result (Result.claim) is not serialized
ResultJSON(r) ==
  [ID |-> r.ID, ClaimID |-> r.ClaimID, Status |-> r.Status,
   OutputMetadata |-> r.OutputMetadata]

ResultDoc(r) ==
  [type |-> ItemTypeResults, group |-> r.ClaimID, name |-> r.ID,
   data |-> [json |-> ResultJSON(r)], encrypt |-> FALSE]

\* json.Unmarshal into a Result: the claim reference stays nil
UnmarshalResult(b) ==
  [ID |-> b.json.ID, ClaimID |-> b.json.ClaimID, Status |-> b.json.Status,
   OutputMetadata |-> b.json.OutputMetadata, claim |-> NilClaim]

\* ValidName.MatchString: one or more of the characters a-z, A-Z, 0-9, _, -
NameCharacters == (97..122) \cup (65..90) \cup (48..57) \cup {95, 45}
ValidName(name) == Len(name) >= 1 /\ \A k \in DOMAIN name : name[k] \in NameCharacters

ErrInvalidName == "invalid installation name"
ErrInvalidReference == "invalid bundle reference"

\* reference.ParseNormalizedNamed(ref) and, of what it returns, Name(): the
\* repository of the references of the histories, an error for a string that
\* is no reference
ParseNormalizedNamed(ref) ==
  CASE ref = "me/mybun:v0.1.0" -> [err |-> Nil, val |-> "me/mybun"]
    [] ref = "me/mybun:v0.2.0" -> [err |-> Nil, val |-> "me/mybun"]
    [] OTHER -> [err |-> ErrInvalidReference, val |-> ""]

\* GetDefaultSchemaVersion
DefaultSchemaVersion == [err |-> Nil, val |-> "1.0.0"]

\* a merge in which a label that is already there keeps its value
MergeLabels_KeepsExisting(labels, more) ==
  [k \in (DOMAIN labels) \cup (DOMAIN more) |-> IF k \in DOMAIN labels THEN labels[k] ELSE more[k]]

\* the loop "for k, v := range more { labels[k] = v }"
MergeLabels(labels, more) ==
  [k \in (DOMAIN labels) \cup (DOMAIN more) |-> IF k \in DOMAIN more THEN more[k] ELSE labels[k]]

\* NewInstallation that takes any name
NewInstallation_AnyName(namespace, name, bundle, bundleRef, bundleDigest, now) ==
  IF DefaultSchemaVersion.err # Nil THEN [err |-> DefaultSchemaVersion.err, val |-> Nil]
  ELSE LET ref == ParseNormalizedNamed(bundleRef) IN
  IF bundleRef # "" /\ ref.err # Nil THEN [err |-> ErrInvalidReference, val |-> Nil]
  ELSE [err |-> Nil,
        val |-> [SchemaVersion |-> DefaultSchemaVersion.val,
                 Name |-> name, Namespace |-> namespace,
                 Created |-> now, Modified |-> now,
                 BundleRepository |-> IF bundleRef # "" THEN ref.val ELSE "",
                 BundleVersion |-> bundle.Version, BundleDigest |-> bundleDigest,
                 Labels |-> EmptyMap,
                 Custom |-> Nil,
                 Status |-> EmptyStatus]]

\* NewInstallation; now is what time.Now() returns.  The copy of the labels
\* of the bundle is made and never put into the installation that is
\* returned, whose Labels stay nil (the empty map here).
NewInstallation(namespace, name, bundle, bundleRef, bundleDigest, now) ==
  IF ~ValidName(name) THEN [err |-> ErrInvalidName, val |-> Nil]
  ELSE IF DefaultSchemaVersion.err # Nil THEN [err |-> DefaultSchemaVersion.err, val |-> Nil]
  ELSE LET ref == ParseNormalizedNamed(bundleRef)
           labels == MergeLabels(EmptyMap, bundle.Labels)
       IN
  IF bundleRef # "" /\ ref.err # Nil THEN [err |-> ErrInvalidReference, val |-> Nil]
  ELSE [err |-> Nil,
        val |-> [SchemaVersion |-> DefaultSchemaVersion.val,
                 Name |-> name, Namespace |-> namespace,
                 Created |-> now, Modified |-> now,
                 BundleRepository |-> IF bundleRef # "" THEN ref.val ELSE "",
                 BundleVersion |-> bundle.Version, BundleDigest |-> bundleDigest,
                 Labels |-> EmptyMap,
                 Custom |-> Nil,
                 Status |-> EmptyStatus]]

\* ApplyClaim that leaves the revision of the status as it was
ApplyClaim_KeepsRevision(i, c) ==
  [i EXCEPT !.BundleVersion = c.Bundle.Version,
            !.BundleDigest = c.BundleDigest,
            !.BundleRepository = IF ParseNormalizedNamed(c.BundleReference).err = Nil
                                 THEN ParseNormalizedNamed(c.BundleReference).val ELSE @,
            !.Labels = MergeLabels(@, c.Bundle.Labels),
            !.Status = [ClaimID |-> c.ID, Revision |-> i.Status.Revision, Action |-> c.Action,
                        ResultID |-> EmptyString, ResultStatus |-> ""]]

\* ApplyClaim that sets the claim in the status and leaves the result in it
ApplyClaim_KeepsResult(i, c) ==
  [i EXCEPT !.BundleVersion = c.Bundle.Version,
            !.BundleDigest = c.BundleDigest,
            !.BundleRepository = IF ParseNormalizedNamed(c.BundleReference).err = Nil
                                 THEN ParseNormalizedNamed(c.BundleReference).val ELSE @,
            !.Labels = MergeLabels(@, c.Bundle.Labels),
            !.Status.ClaimID = c.ID, !.Status.Revision = c.Revision,
            !.Status.Action = c.Action]

\* Installation.ApplyClaim
ApplyClaim(i, c) ==
  [i EXCEPT !.BundleVersion = c.Bundle.Version,
            !.BundleDigest = c.BundleDigest,
            !.BundleRepository = IF ParseNormalizedNamed(c.BundleReference).err = Nil
                                 THEN ParseNormalizedNamed(c.BundleReference).val ELSE @,
            !.Labels = MergeLabels(@, c.Bundle.Labels),
            !.Status = [ClaimID |-> c.ID, Revision |-> c.Revision, Action |-> c.Action,
                        ResultID |-> EmptyString, ResultStatus |-> ""]]

\* ApplyResult that records the result but not its status
ApplyResult_IDOnly(i, r) == [i EXCEPT !.Status.ResultID = r.ID]

\* ApplyResult that stamps the installation as modified
ApplyResult_StampsModified(i, r) ==
  [i EXCEPT !.Status.ResultID = r.ID, !.Status.ResultStatus = r.Status,
            !.Modified = @ + 1]

\* Installation.ApplyResult
ApplyResult(i, r) ==
  [i EXCEPT !.Status.ResultID = r.ID, !.Status.ResultStatus = r.Status]

\* Installation.GetStatus
GetStatus(i) == IF i.Status.ResultStatus = "" THEN StatusUnknown ELSE i.Status.ResultStatus

----------------------------------------------------------------------------
(* The claim store. *)

\* handleNotExistsError that hands the error of the backing store through
handleNotExistsError_PassThrough(crudError, typedError) == crudError

\* Store.handleNotExistsError
handleNotExistsError(crudError, typedError) ==
  IF crudError # Nil /\ crudError = ErrRecordDoesNotExist THEN typedError ELSE crudError

\* Store.ReadInstallation
ReadInstallation(st, namespace, name) ==
  LET bytes == BackingRead(st, ItemTypeInstallations, InstallationKey(namespace, name)) IN
  IF bytes.err # Nil
  THEN [err |-> handleNotExistsError(bytes.err, ErrInstallationNotFound), val |-> Nil]
  ELSE [err |-> Nil, val |-> bytes.val.json]

\* Store.SaveInstallation
SaveInstallation(st, i) == SaveDocument(st, InstallationDoc(i))

\* SaveClaim that reads the installation of a modifying claim before it
\* writes the claim
SaveClaim_ReadsFirst(st, c) ==
  LET i == ReadInstallation(st, NamespaceGlobal, c.Installation) IN
  IF IsModifyingAction(c) /\ i.err # Nil THEN [err |-> i.err, st |-> st]
  ELSE LET saved == SaveDocument(st, ClaimDoc(c)) IN
       IF saved.err # Nil \/ ~IsModifyingAction(c) THEN saved
       ELSE SaveInstallation(saved.st, ApplyClaim(i.val, c))

\* SaveClaim that updates the installation for every action
SaveClaim_AlwaysApplies(st, c) ==
  LET saved == SaveDocument(st, ClaimDoc(c)) IN
  IF saved.err # Nil THEN saved
  ELSE LET i == ReadInstallation(saved.st, NamespaceGlobal, c.Installation) IN
       IF i.err # Nil THEN [err |-> i.err, st |-> saved.st]
       ELSE SaveInstallation(saved.st, ApplyClaim(i.val, c))

\* Store.SaveClaim
SaveClaim(st, c) ==
  IF ConnectFails(st) THEN [err |-> ErrConnectFailure, st |-> st] ELSE
  LET saved == SaveDocument(st, ClaimDoc(c)) IN
  IF saved.err # Nil THEN saved
  ELSE IF IsModifyingAction(c)
  THEN LET i == ReadInstallation(saved.st, NamespaceGlobal, c.Installation) IN
       IF i.err # Nil THEN [err |-> i.err, st |-> saved.st]
       ELSE SaveInstallation(saved.st, ApplyClaim(i.val, c))
  ELSE saved

\* SaveResult that writes the record of a result only when none is stored
SaveResult_KeepsStored(st, r) ==
  LET saved == IF r.ID \in DOMAIN st[ItemTypeResults]
               THEN [err |-> Nil, st |-> st]
               ELSE SaveDocument(st, ResultDoc(r)) IN
  IF saved.err # Nil THEN saved
  ELSE IF r.claim # NilClaim /\ IsModifyingAction(r.claim[1])
  THEN LET i == ReadInstallation(saved.st, NamespaceGlobal, r.claim[1].Installation) IN
       IF i.err # Nil THEN [err |-> i.err, st |-> saved.st]
       ELSE SaveInstallation(saved.st, ApplyResult(i.val, r))
  ELSE saved

\* Store.SaveResult
SaveResult(st, r) ==
  IF ConnectFails(st) THEN [err |-> ErrConnectFailure, st |-> st] ELSE
  LET saved == SaveDocument(st, ResultDoc(r)) IN
  IF saved.err # Nil THEN saved
  ELSE IF r.claim # NilClaim /\ IsModifyingAction(r.claim[1])
  THEN LET i == ReadInstallation(saved.st, NamespaceGlobal, r.claim[1].Installation) IN
       IF i.err # Nil THEN [err |-> i.err, st |-> saved.st]
       ELSE SaveInstallation(saved.st, ApplyResult(i.val, r))
  ELSE saved

----------------------------------------------------------------------------
(* Lists and point reads. *)

\* Store.ListClaims
ListClaims(st, installation) ==
  LET claims == BackingList(st, ItemTypeClaims, installation) IN
  IF Len(claims.val) = 0 THEN [err |-> ErrInstallationNotFound, val |-> << >>]
  ELSE [err |-> handleNotExistsError(claims.err, ErrInstallationNotFound),
        val |-> SortStrings(claims.val)]

\* ListResults that types the error of an empty group as the other reads do
ListResults_Typed(st, claimID) ==
  LET results == BackingList(st, ItemTypeResults, claimID) IN
  IF results.err # Nil
  THEN [err |-> handleNotExistsError(results.err, ErrClaimNotFound), val |-> << >>]
  ELSE [err |-> Nil, val |-> SortStrings(results.val)]

\* Store.ListResults
ListResults(st, claimID) ==
  LET results == BackingList(st, ItemTypeResults, claimID) IN
  IF results.err # Nil
  THEN IF results.err = ErrRecordDoesNotExist
       THEN [err |-> Nil, val |-> << >>]
       ELSE [err |-> results.err, val |-> << >>]
  ELSE [err |-> Nil, val |-> SortStrings(results.val)]

\* Store.outputKey
outputKey(resultID, output) == resultID \o <<Dash>> \o output

\* Store.ListOutputs
ListOutputs(st, resultID) ==
  LET outputNames == BackingList(st, ItemTypeOutputs, resultID) IN
  IF outputNames.err # Nil
  THEN IF outputNames.err = ErrRecordDoesNotExist
       THEN [err |-> Nil, val |-> << >>]
       ELSE [err |-> outputNames.err, val |-> << >>]
  ELSE [err |-> Nil,
        val |-> SortStrings([i \in DOMAIN outputNames.val |->
                              TrimPrefix(outputNames.val[i], resultID \o <<Dash>>)])]

\* Store.ReadClaim
ReadClaim(st, claimID) ==
  LET bytes == BackingRead(st, ItemTypeClaims, claimID) IN
  IF bytes.err # Nil
  THEN [err |-> handleNotExistsError(bytes.err, ErrClaimNotFound), val |-> Nil]
  ELSE LET plain == Decrypt(bytes.val) IN
       IF plain.err # Nil THEN [err |-> plain.err, val |-> Nil]
       ELSE [err |-> Nil, val |-> plain.val.json]

\* Store.ReadResult
ReadResult(st, resultID) ==
  LET bytes == BackingRead(st, ItemTypeResults, resultID) IN
  IF bytes.err # Nil
  THEN [err |-> handleNotExistsError(bytes.err, ErrResultNotFound), val |-> Nil]
  ELSE [err |-> Nil, val |-> UnmarshalResult(bytes.val)]

\* Store.ReadAllClaims
ReadAllClaims(st, installation) ==
  LET items == BackingReadAll(st, ItemTypeClaims, installation) IN
  IF items.err # Nil
  THEN [err |-> handleNotExistsError(items.err, ErrInstallationNotFound), val |-> << >>]
  ELSE IF Len(items.val) = 0 THEN [err |-> ErrInstallationNotFound, val |-> << >>]
  ELSE LET plain == [i \in DOMAIN items.val |-> Decrypt(items.val[i])] IN
       IF \E i \in DOMAIN plain : plain[i].err # Nil
       THEN [err |-> ErrDecrypt, val |-> << >>]
       ELSE LET claims == SortByKey([i \in DOMAIN plain |->
                                      [key |-> plain[i].val.json.ID, val |-> plain[i].val.json]])
            IN [err |-> Nil, val |-> [i \in DOMAIN claims |-> claims[i].val]]

\* ReadLastClaim that takes the last key as the backing store listed it
ReadLastClaim_Unsorted(st, installation) ==
  LET claimIds == BackingList(st, ItemTypeClaims, installation) IN
  IF claimIds.err # Nil
  THEN [err |-> handleNotExistsError(claimIds.err, ErrInstallationNotFound), val |-> Nil]
  ELSE IF Len(claimIds.val) = 0 THEN [err |-> ErrInstallationNotFound, val |-> Nil]
  ELSE ReadClaim(st, claimIds.val[Len(claimIds.val)])

\* Store.ReadLastClaim
ReadLastClaim(st, installation) ==
  IF ConnectFails(st) THEN [err |-> ErrConnectFailure, val |-> Nil] ELSE
  LET claimIds == BackingList(st, ItemTypeClaims, installation) IN
  IF claimIds.err # Nil
  THEN [err |-> handleNotExistsError(claimIds.err, ErrInstallationNotFound), val |-> Nil]
  ELSE IF Len(claimIds.val) = 0 THEN [err |-> ErrInstallationNotFound, val |-> Nil]
  ELSE LET sorted == SortStrings(claimIds.val) IN ReadClaim(st, sorted[Len(sorted)])

\* Store.ReadLastResult
ReadLastResult(st, claimID) ==
  IF ConnectFails(st) THEN [err |-> ErrConnectFailure, val |-> Nil] ELSE
  LET resultIDs == BackingList(st, ItemTypeResults, claimID) IN
  IF resultIDs.err # Nil
  THEN [err |-> handleNotExistsError(resultIDs.err, ErrClaimNotFound), val |-> Nil]
  ELSE IF Len(resultIDs.val) = 0 THEN [err |-> ErrNoResults, val |-> Nil]
  ELSE LET sorted == SortStrings(resultIDs.val) IN ReadResult(st, sorted[Len(sorted)])

----------------------------------------------------------------------------
(* Outputs. *)

ErrOutputClaimNotSet == "output.Claim is not set"

ErrOutputNotDefined == "output not defined"

\* bundle.IsOutputSensitive: whether the definition of the output is marked
\* write-only; an error for an output the bundle does not define
IsOutputSensitive(bundle, name) ==
  IF name \in bundle.Outputs
  THEN [err |-> Nil, val |-> name \in bundle.Sensitive]
  ELSE [err |-> ErrOutputNotDefined, val |-> FALSE]

\* NewOutput
NewOutput(c, r, name, value) ==
  [claim |-> c, result |-> [r EXCEPT !.claim = <<c>>], Name |-> name, Value |-> value]

\* the bytes SaveOutput writes for an output: encrypted iff the bundle of
\* the claim marks the output sensitive
OutputData(o) ==
  IF IsOutputSensitive(o.claim.Bundle, o.Name).err = Nil
     /\ IsOutputSensitive(o.claim.Bundle, o.Name).val
  THEN Encrypt(o.Value) ELSE [err |-> Nil, val |-> o.Value]

\* SaveOutput that encrypts every output, sensitive or not
SaveOutput_EncryptsAll(st, o) ==
  IF o.claim.ID = EmptyString THEN [err |-> ErrOutputClaimNotSet, st |-> st]
  ELSE LET data == Encrypt(o.Value)
       IN IF data.err # Nil THEN [err |-> data.err, st |-> st]
          ELSE BackingSave(st, ItemTypeOutputs, o.result.ID,
                           outputKey(o.result.ID, o.Name), data.val)

\* Store.SaveOutput
SaveOutput(st, o) ==
  IF o.claim.ID = EmptyString THEN [err |-> ErrOutputClaimNotSet, st |-> st]
  ELSE LET data == OutputData(o)
       IN IF data.err # Nil THEN [err |-> data.err, st |-> st]
          ELSE BackingSave(st, ItemTypeOutputs, o.result.ID,
                           outputKey(o.result.ID, o.Name), data.val)

\* ReadOutput that decrypts every output, sensitive or not
ReadOutput_DecryptsAll(st, c, r, outputName) ==
  LET bytes == BackingRead(st, ItemTypeOutputs, outputKey(r.ID, outputName)) IN
  IF bytes.err # Nil
  THEN [err |-> handleNotExistsError(bytes.err, ErrOutputNotFound), val |-> Nil]
  ELSE LET plain == Decrypt(bytes.val)
       IN IF plain.err # Nil THEN [err |-> plain.err, val |-> Nil]
          ELSE [err |-> Nil, val |-> NewOutput(c, r, outputName, plain.val)]

\* Store.ReadOutput
ReadOutput(st, c, r, outputName) ==
  LET bytes == BackingRead(st, ItemTypeOutputs, outputKey(r.ID, outputName)) IN
  IF bytes.err # Nil
  THEN [err |-> handleNotExistsError(bytes.err, ErrOutputNotFound), val |-> Nil]
  ELSE LET sensitive == IF IsOutputSensitive(c.Bundle, outputName).err # Nil THEN FALSE
                        ELSE IsOutputSensitive(c.Bundle, outputName).val
           plain == IF sensitive THEN Decrypt(bytes.val) ELSE [err |-> Nil, val |-> bytes.val]
       IN IF plain.err # Nil THEN [err |-> plain.err, val |-> Nil]
          ELSE [err |-> Nil, val |-> NewOutput(c, r, outputName, plain.val)]

\* Outputs: vals is the list of outputs, keys maps an output name to the
\* position of that output in vals (positions count from 1 here)
EmptyOutputs == [vals |-> << >>, keys |-> EmptyMap]

\* Outputs.Less
OutputsLess(o, i, j) == StrLess(o.vals[i].Name, o.vals[j].Name)

\* Swap that exchanges the outputs and leaves the positions of their names
OutputsSwap_ValsOnly(o, i, j) == [vals |-> SeqSwap(o.vals, i, j), keys |-> o.keys]

\* Outputs.Swap
OutputsSwap(o, i, j) ==
  LET keys1 == [o.keys EXCEPT ![o.vals[i].Name] = j]
      keys2 == [keys1 EXCEPT ![o.vals[j].Name] = i]
  IN [vals |-> SeqSwap(o.vals, i, j), keys |-> keys2]

RECURSIVE OutputsSinkDown(_, _)
OutputsSinkDown(o, j) ==
  IF j > 1 /\ OutputsLess(o, j, j - 1)
  THEN OutputsSinkDown(OutputsSwap(o, j, j - 1), j - 1)
  ELSE o

RECURSIVE OutputsSort(_, _)
OutputsSort(o, i) ==
  IF i > Len(o.vals) THEN o ELSE OutputsSort(OutputsSinkDown(o, i), i + 1)

\* the name -> position map NewOutputs builds: a later output of the same
\* name overwrites an earlier one
OutputKeys(outputs) ==
  [n \in {outputs[i].Name : i \in DOMAIN outputs} |->
     CHOOSE i \in DOMAIN outputs :
       outputs[i].Name = n /\ \A j \in DOMAIN outputs : outputs[j].Name = n => j <= i]

\* NewOutputs
NewOutputs(outputs) == OutputsSort([vals |-> outputs, keys |-> OutputKeys(outputs)], 2)

\* GetByName with the bound of the position check off by one
GetByName_OffByOne(o, name) ==
  IF name \notin DOMAIN o.keys \/ o.keys[name] >= Len(o.vals)
  THEN [ok |-> FALSE, val |-> Nil]
  ELSE [ok |-> TRUE, val |-> o.vals[o.keys[name]]]

\* Outputs.GetByName
GetByName(o, name) ==
  IF name \notin DOMAIN o.keys \/ o.keys[name] > Len(o.vals)
  THEN [ok |-> FALSE, val |-> Nil]
  ELSE [ok |-> TRUE, val |-> o.vals[o.keys[name]]]

\* Outputs.GetByIndex
GetByIndex(o, i) ==
  IF i < 1 \/ i > Len(o.vals) THEN [ok |-> FALSE, val |-> Nil]
  ELSE [ok |-> TRUE, val |-> o.vals[i]]

\* readLastOutputs, first loop: the results of every claim, each carrying its claim
RECURSIVE CollectResults(_, _, _, _)
CollectResults(st, claims, n, acc) ==
  IF n > Len(claims) THEN [err |-> Nil, val |-> acc]
  ELSE LET c == claims[n]
           resultIds == ListResults(st, c.ID)
       IN IF resultIds.err # Nil THEN [err |-> resultIds.err, val |-> << >>]
          ELSE CollectResults(st, claims, n + 1,
                 acc \o [k \in DOMAIN resultIds.val |->
                           [ID |-> resultIds.val[k], ClaimID |-> c.ID, Status |-> "",
                            OutputMetadata |-> NoMetadata, claim |-> <<c>>]])

\* the name loop keeping the first result seen for a name
RECURSIVE NoteOutputs_FirstWins(_, _, _, _, _)
NoteOutputs_FirstWins(lastOutputs, result, outputNames, k, filterOutput) ==
  IF k > Len(outputNames) THEN lastOutputs
  ELSE NoteOutputs_FirstWins(
         IF (filterOutput = EmptyString \/ filterOutput = outputNames[k])
            /\ outputNames[k] \notin DOMAIN lastOutputs
         THEN Put(lastOutputs, outputNames[k], result) ELSE lastOutputs,
         result, outputNames, k + 1, filterOutput)

\* readLastOutputs, the name loop of one result
RECURSIVE NoteOutputs(_, _, _, _, _)
NoteOutputs(lastOutputs, result, outputNames, k, filterOutput) ==
  IF k > Len(outputNames) THEN lastOutputs
  ELSE NoteOutputs(
         IF filterOutput = EmptyString \/ filterOutput = outputNames[k]
         THEN Put(lastOutputs, outputNames[k], result) ELSE lastOutputs,
         result, outputNames, k + 1, filterOutput)

\* readLastOutputs, second loop: output name -> the last result that has it
RECURSIVE LastOutputsOf(_, _, _, _, _)
LastOutputsOf(st, results, n, lastOutputs, filterOutput) ==
  IF n > Len(results) THEN [err |-> Nil, val |-> lastOutputs]
  ELSE LET outputNames == ListOutputs(st, results[n].ID) IN
       IF outputNames.err # Nil THEN [err |-> outputNames.err, val |-> EmptyMap]
       ELSE LastOutputsOf(st, results, n + 1,
              NoteOutputs(lastOutputs, results[n], outputNames.val, 1, filterOutput),
              filterOutput)

\* Store.readLastOutputs
readLastOutputs(st, installation, filterOutput) ==
  LET claims == ReadAllClaims(st, installation) IN
  IF claims.err # Nil THEN [err |-> claims.err, val |-> EmptyOutputs]
  ELSE LET collected == CollectResults(st, claims.val, 1, << >>) IN
  IF collected.err # Nil THEN [err |-> collected.err, val |-> EmptyOutputs]
  ELSE LET sorted == SortByKey([k \in DOMAIN collected.val |->
                                 [key |-> collected.val[k].ID, val |-> collected.val[k]]])
           results == [k \in DOMAIN sorted |-> sorted[k].val]
           lastOutputs == LastOutputsOf(st, results, 1, EmptyMap, filterOutput)
       IN
  IF lastOutputs.err # Nil THEN [err |-> lastOutputs.err, val |-> EmptyOutputs]
  ELSE LET names == SetToSeq(DOMAIN lastOutputs.val)
           read == [k \in DOMAIN names |->
                     ReadOutput(st, lastOutputs.val[names[k]].claim[1],
                                lastOutputs.val[names[k]], names[k])]
       IN IF \E k \in DOMAIN read : read[k].err # Nil
          THEN [err |-> (read[CHOOSE k \in DOMAIN read : read[k].err # Nil]).err,
                val |-> EmptyOutputs]
          ELSE [err |-> Nil, val |-> NewOutputs([k \in DOMAIN read |-> read[k].val])]

\* Store.ReadLastOutputs
ReadLastOutputs(st, installation) ==
  IF ConnectFails(st) THEN [err |-> ErrConnectFailure, val |-> EmptyOutputs]
  ELSE readLastOutputs(st, installation, EmptyString)

\* Store.ReadLastOutput
ReadLastOutput(st, installation, name) ==
  IF ConnectFails(st) THEN [err |-> ErrConnectFailure, val |-> Nil] ELSE
  LET outputs == readLastOutputs(st, installation, name) IN
  IF outputs.err # Nil THEN [err |-> outputs.err, val |-> Nil]
  ELSE LET o == GetByName(outputs.val, name) IN
       IF o.ok THEN [err |-> Nil, val |-> o.val] ELSE [err |-> ErrOutputNotFound, val |-> Nil]

----------------------------------------------------------------------------
(* Deletes. *)

\* "err = s.backingStore.Delete(..); return s.handleNotExistsError(err, typedError)"
\* at the end of a delete operation: prev is what the operation has returned
\* so far, an error in it has ended the operation before the delete
DeleteRecord(prev, itemType, key, typedError) ==
  IF prev.err # Nil THEN prev
  ELSE [err |-> handleNotExistsError(BackingDelete(prev.st, itemType, key).err, typedError),
        st |-> BackingDelete(prev.st, itemType, key).st]

\* Store.DeleteOutput
DeleteOutput(st, resultID, outputName) ==
  DeleteRecord([err |-> Nil, st |-> st], ItemTypeOutputs,
               outputKey(resultID, outputName), ErrOutputNotFound)

\* the loop of DeleteResult from its k-th output on, prev being what the
\* DeleteOutput before returned: the first failing DeleteOutput ends the loop
RECURSIVE DeleteOutputs(_, _, _, _)
DeleteOutputs(prev, resultID, outputNames, k) ==
  IF k > Len(outputNames) \/ prev.err # Nil THEN prev
  ELSE DeleteOutputs(DeleteOutput(prev.st, resultID, outputNames[k]),
                     resultID, outputNames, k + 1)

\* DeleteResult that deletes the result record and leaves its outputs
DeleteResult_KeepsOutputs(st, resultID) ==
  DeleteRecord([err |-> Nil, st |-> st], ItemTypeResults, resultID, ErrResultNotFound)

\* Store.DeleteResult
DeleteResult(st, resultID) ==
  IF ConnectFails(st) THEN [err |-> ErrConnectFailure, st |-> st] ELSE
  LET outputNames == ListOutputs(st, resultID) IN
  IF outputNames.err # Nil THEN [err |-> outputNames.err, st |-> st]
  ELSE DeleteRecord(DeleteOutputs([err |-> Nil, st |-> st], resultID, outputNames.val, 1),
                    ItemTypeResults, resultID, ErrResultNotFound)

\* the loop of DeleteClaim: the first failing DeleteResult ends it
RECURSIVE DeleteResults(_, _, _)
DeleteResults(prev, resultIds, k) ==
  IF k > Len(resultIds) \/ prev.err # Nil THEN prev
  ELSE DeleteResults(DeleteResult(prev.st, resultIds[k]), resultIds, k + 1)

\* Store.DeleteClaim
DeleteClaim(st, claimID) ==
  IF ConnectFails(st) THEN [err |-> ErrConnectFailure, st |-> st] ELSE
  LET resultIds == ListResults(st, claimID) IN
  IF resultIds.err # Nil THEN [err |-> resultIds.err, st |-> st]
  ELSE DeleteRecord(DeleteResults([err |-> Nil, st |-> st], resultIds.val, 1),
                    ItemTypeClaims, claimID, ErrClaimNotFound)

\* the loop of DeleteInstallation: the first failing DeleteClaim ends it
RECURSIVE DeleteClaims(_, _, _)
DeleteClaims(prev, claimIds, k) ==
  IF k > Len(claimIds) \/ prev.err # Nil THEN prev
  ELSE DeleteClaims(DeleteClaim(prev.st, claimIds[k]), claimIds, k + 1)

\* DeleteInstallation that deletes the installation of that name in every
\* namespace
DeleteInstallation_EveryNamespace(st, installation) ==
  LET claimIds == ListClaims(st, installation)
      deleted == DeleteRecord(DeleteClaims([err |-> Nil, st |-> st], claimIds.val, 1),
                              ItemTypeInstallations, installation, ErrInstallationNotFound)
      named == {key \in DOMAIN deleted.st[ItemTypeInstallations] :
                  deleted.st[ItemTypeInstallations][key].data.json.Name = installation}
  IN IF claimIds.err # Nil THEN [err |-> claimIds.err, st |-> st]
     ELSE [err |-> deleted.err,
           st |-> [deleted.st EXCEPT ![ItemTypeInstallations] =
                     [key \in (DOMAIN @) \ named |-> @[key]]]]

\* Store.DeleteInstallation
DeleteInstallation(st, installation) ==
  IF ConnectFails(st) THEN [err |-> ErrConnectFailure, st |-> st] ELSE
  LET claimIds == ListClaims(st, installation) IN
  IF claimIds.err # Nil THEN [err |-> claimIds.err, st |-> st]
  ELSE DeleteRecord(DeleteClaims([err |-> Nil, st |-> st], claimIds.val, 1),
                    ItemTypeInstallations, installation, ErrInstallationNotFound)

\* Store.ListInstallations
ListInstallations(st, namespace) ==
  LET names == BackingList(st, ItemTypeInstallations, namespace) IN
  [err |-> names.err, val |-> SortStrings(names.val)]

\* Store.ReadAllInstallations
ReadAllInstallations(st) ==
  LET items == BackingReadAll(st, ItemTypeInstallations, EmptyString) IN
  IF items.err # Nil THEN [err |-> items.err, val |-> << >>]
  ELSE LET installations == SortByKey([i \in DOMAIN items.val |->
                              [key |-> items.val[i].json.Name, val |-> items.val[i].json]])
       IN [err |-> Nil, val |-> [i \in DOMAIN installations |-> installations[i].val]]

\* Store.ReadAllResults
ReadAllResults(st, claimID) ==
  LET items == BackingReadAll(st, ItemTypeResults, claimID) IN
  IF items.err # Nil
  THEN IF items.err = ErrRecordDoesNotExist
       THEN [err |-> Nil, val |-> << >>]
       ELSE [err |-> items.err, val |-> << >>]
  ELSE LET results == SortByKey([i \in DOMAIN items.val |->
                        [key |-> items.val[i].json.ID, val |-> UnmarshalResult(items.val[i])]])
       IN [err |-> Nil, val |-> [i \in DOMAIN results |-> results[i].val]]

\* a claim read for the status view: c.results is a pointer, << >> is nil
\* and <<rs>> points to the results rs
LoadedClaim(c, results) == [claim |-> c, results |-> results]

\* sort.Sort(c.results) when c.results is not nil: the results by their ID
SortedResults(results) ==
  IF results = << >> THEN << >>
  ELSE LET sorted == SortByKey([k \in DOMAIN results[1] |->
                                 [key |-> results[1][k].ID, val |-> results[1][k]]])
       IN << [k \in DOMAIN sorted |-> sorted[k].val] >>

\* LoadClaims that attaches the claims as they come
LoadClaims_AsGiven(i, claims) == [Name |-> i.Name, claims |-> claims]

\* Installation.LoadClaims: the claims sorted by their ID, the results of
\* each claim sorted through its pointer
LoadClaims(i, claims) ==
  LET sorted == SortByKey([k \in DOMAIN claims |-> [key |-> claims[k].claim.ID, val |-> claims[k]]])
  IN [Name |-> i.Name,
      claims |-> [k \in DOMAIN sorted |->
                    LoadedClaim(sorted[k].val.claim, SortedResults(sorted[k].val.results))]]

ErrNoClaims == "the installation has no claims"
ErrResultsNotLoaded == "the last claim does not have any results loaded"
ErrLastClaimNoResults == "the last claim has no results"

\* Installation.GetLastClaim
GetLastClaim(i) ==
  IF Len(i.claims) = 0 THEN [err |-> ErrNoClaims, val |-> Nil]
  ELSE [err |-> Nil, val |-> i.claims[Len(i.claims)]]

\* Installation.GetLastResult
GetLastResult(i) ==
  LET lastClaim == GetLastClaim(i) IN
  IF lastClaim.err # Nil THEN [err |-> lastClaim.err, val |-> Nil]
  ELSE IF lastClaim.val.results = << >> THEN [err |-> ErrResultsNotLoaded, val |-> Nil]
  ELSE LET results == lastClaim.val.results[1] IN
       IF Len(results) = 0 THEN [err |-> ErrLastClaimNoResults, val |-> Nil]
       ELSE [err |-> Nil, val |-> results[Len(results)]]

\* Installation.GetLastStatus
GetLastStatus(i) ==
  LET lastResult == GetLastResult(i) IN
  IF lastResult.err # Nil THEN StatusUnknown ELSE lastResult.val.Status

\* ReadInstallationStatus that attaches the first result of the last claim
ReadInstallationStatus_FirstResult(st, installation) ==
  LET claimIds == ListClaims(st, installation) IN
  IF claimIds.err # Nil THEN [err |-> claimIds.err, val |-> Nil]
  ELSE IF Len(claimIds.val) = 0 THEN [err |-> ErrInstallationNotFound, val |-> Nil]
  ELSE LET lastClaimID == SortStrings(claimIds.val)[Len(claimIds.val)]
           c == ReadClaim(st, lastClaimID)
           resultIDs == ListResults(st, lastClaimID)
       IN
  IF c.err # Nil THEN [err |-> c.err, val |-> Nil]
  ELSE IF resultIDs.err # Nil THEN [err |-> resultIDs.err, val |-> Nil]
  ELSE IF Len(resultIDs.val) = 0
  THEN [err |-> Nil,
        val |-> LoadClaims([Name |-> installation], <<LoadedClaim(c.val, << >>)>>)]
  ELSE LET r == ReadResult(st, SortStrings(resultIDs.val)[1]) IN
       IF r.err # Nil THEN [err |-> r.err, val |-> Nil]
       ELSE [err |-> Nil,
             val |-> LoadClaims([Name |-> installation],
                                <<LoadedClaim(c.val, << <<r.val>> >>)>>)]

\* Store.ReadInstallationStatus
ReadInstallationStatus(st, installation) ==
  IF ConnectFails(st) THEN [err |-> ErrConnectFailure, val |-> Nil] ELSE
  LET claimIds == ListClaims(st, installation) IN
  IF claimIds.err # Nil THEN [err |-> claimIds.err, val |-> Nil]
  ELSE IF Len(claimIds.val) = 0 THEN [err |-> ErrInstallationNotFound, val |-> Nil]
  ELSE LET lastClaimID == SortStrings(claimIds.val)[Len(claimIds.val)]
           c == ReadClaim(st, lastClaimID)
           resultIDs == ListResults(st, lastClaimID)
       IN
  IF c.err # Nil THEN [err |-> c.err, val |-> Nil]
  ELSE IF resultIDs.err # Nil THEN [err |-> resultIDs.err, val |-> Nil]
  ELSE IF Len(resultIDs.val) = 0
  THEN [err |-> Nil,
        val |-> LoadClaims([Name |-> installation], <<LoadedClaim(c.val, << >>)>>)]
  ELSE LET r == ReadResult(st, SortStrings(resultIDs.val)[Len(resultIDs.val)]) IN
       IF r.err # Nil THEN [err |-> r.err, val |-> Nil]
       ELSE [err |-> Nil,
             val |-> LoadClaims([Name |-> installation],
                                <<LoadedClaim(c.val, << <<r.val>> >>)>>)]

\* Store.ReadAllInstallationStatus: the first failing ReadInstallationStatus
\* ends the loop
ReadAllInstallationStatus(st) ==
  IF ConnectFails(st) THEN [err |-> ErrConnectFailure, val |-> << >>] ELSE
  LET names == ListInstallations(st, EmptyString) IN
  IF names.err # Nil THEN [err |-> names.err, val |-> << >>]
  ELSE LET read == [k \in DOMAIN names.val |-> ReadInstallationStatus(st, names.val[k])] IN
       IF \E k \in DOMAIN read : read[k].err # Nil
       THEN [err |-> read[CHOOSE k \in DOMAIN read :
                            read[k].err # Nil /\ \A j \in 1..(k - 1) : read[j].err = Nil].err,
             val |-> << >>]
       ELSE [err |-> Nil, val |-> [k \in DOMAIN read |-> read[k].val]]

----------------------------------------------------------------------------
(* The calls a store operation issues.  A request is [op, a]: a method of  *)
(* the Store, crud.SaveDocument, or a call of the backing store (List,     *)
(* Read, ReadAll, Save, Delete) with its arguments.                        *)

Req(op, a) == [op |-> op, a |-> a]

BackingCalls == {"List", "Read", "ReadAll", "Save", "Delete"}

\* the scoped methods without the deletes
HandleConnectScoped_DeletesUnscoped ==
  {"ReadInstallationStatus", "ReadAllInstallationStatus", "ReadLastClaim",
   "ReadLastOutputs", "ReadLastOutput", "ReadLastResult", "SaveClaim", "SaveResult"}

\* the methods that open with s.backingStore.HandleConnect() and defer the
\* release it returns
HandleConnectScoped ==
  {"ReadInstallationStatus", "ReadAllInstallationStatus", "ReadLastClaim",
   "ReadLastOutputs", "ReadLastOutput", "ReadLastResult", "SaveClaim", "SaveResult",
   "DeleteInstallation", "DeleteClaim", "DeleteResult"}

\* what a request returns and the store it leaves
Invoke(st, q) ==
  LET a == q.a
      Reads(res) == [err |-> res.err, st |-> st]
  IN CASE q.op = "List" -> Reads(BackingList(st, a[1], a[2]))
       [] q.op = "Read" -> Reads(BackingRead(st, a[1], a[2]))
       [] q.op = "ReadAll" -> Reads(BackingReadAll(st, a[1], a[2]))
       [] q.op = "Save" -> BackingSave(st, a[1], a[2], a[3], a[4])
       [] q.op = "Delete" -> BackingDelete(st, a[1], a[2])
       [] q.op = "SaveDocument" -> SaveDocument(st, a[1])
       [] q.op = "ListInstallations" -> Reads(ListInstallations(st, a[1]))
       [] q.op = "ListClaims" -> Reads(ListClaims(st, a[1]))
       [] q.op = "ListResults" -> Reads(ListResults(st, a[1]))
       [] q.op = "ListOutputs" -> Reads(ListOutputs(st, a[1]))
       [] q.op = "ReadInstallation" -> Reads(ReadInstallation(st, a[1], a[2]))
       [] q.op = "ReadAllInstallations" -> Reads(ReadAllInstallations(st))
       [] q.op = "ReadInstallationStatus" -> Reads(ReadInstallationStatus(st, a[1]))
       [] q.op = "ReadAllInstallationStatus" -> Reads(ReadAllInstallationStatus(st))
       [] q.op = "ReadClaim" -> Reads(ReadClaim(st, a[1]))
       [] q.op = "ReadAllClaims" -> Reads(ReadAllClaims(st, a[1]))
       [] q.op = "ReadLastClaim" -> Reads(ReadLastClaim(st, a[1]))
       [] q.op = "ReadResult" -> Reads(ReadResult(st, a[1]))
       [] q.op = "ReadAllResults" -> Reads(ReadAllResults(st, a[1]))
       [] q.op = "ReadLastResult" -> Reads(ReadLastResult(st, a[1]))
       [] q.op = "ReadOutput" -> Reads(ReadOutput(st, a[1], a[2], a[3]))
       [] q.op = "ReadLastOutputs" -> Reads(ReadLastOutputs(st, a[1]))
       [] q.op = "ReadLastOutput" -> Reads(ReadLastOutput(st, a[1], a[2]))
       [] q.op = "SaveInstallation" -> SaveInstallation(st, a[1])
       [] q.op = "SaveClaim" -> SaveClaim(st, a[1])
       [] q.op = "SaveResult" -> SaveResult(st, a[1])
       [] q.op = "SaveOutput" -> SaveOutput(st, a[1])
       [] q.op = "DeleteInstallation" -> DeleteInstallation(st, a[1])
       [] q.op = "DeleteClaim" -> DeleteClaim(st, a[1])
       [] q.op = "DeleteResult" -> DeleteResult(st, a[1])
       [] q.op = "DeleteOutput" -> DeleteOutput(st, a[1], a[2])

\* the requests of the three loops of readLastOutputs, after ReadAllClaims
LastOutputsCalls(st, claims, filterOutput) ==
  LET collected == CollectResults(st, claims, 1, << >>)
      sorted == SortByKey([k \in DOMAIN collected.val |->
                            [key |-> collected.val[k].ID, val |-> collected.val[k]]])
      results == [k \in DOMAIN sorted |-> sorted[k].val]
      lastOutputs == LastOutputsOf(st, results, 1, EmptyMap, filterOutput)
      names == SetToSeq(DOMAIN lastOutputs.val)
  IN [k \in DOMAIN claims |-> Req("ListResults", <<claims[k].ID>>)]
     \o [k \in DOMAIN results |-> Req("ListOutputs", <<results[k].ID>>)]
     \o [k \in DOMAIN names |->
           Req("ReadOutput", <<lastOutputs.val[names[k]].claim[1],
                               lastOutputs.val[names[k]], names[k]>>)]

\* the last of the sorted keys a listing returned
LastKey(keys) == SortStrings(keys)[Len(keys)]

\* the calls of a DeleteResult that deletes the record of the result first
DeleteResultCalls_RecordFirst(st, resultID) ==
  <<Req("ListOutputs", <<resultID>>), Req("Delete", <<ItemTypeResults, resultID>>)>>
  \o [k \in DOMAIN ListOutputs(st, resultID).val |->
        Req("DeleteOutput", <<resultID, ListOutputs(st, resultID).val[k]>>)]

\* the calls of DeleteResult: the outputs are listed, each is deleted, then
\* the record of the result
DeleteResultCalls(st, resultID) ==
  <<Req("ListOutputs", <<resultID>>)>>
  \o [k \in DOMAIN ListOutputs(st, resultID).val |->
        Req("DeleteOutput", <<resultID, ListOutputs(st, resultID).val[k]>>)]
  \o <<Req("Delete", <<ItemTypeResults, resultID>>)>>

\* the requests the body of a method issues, in order, as far as every one
\* of them returns without error: the first that fails ends the method
Body(st, q) ==
  LET a == q.a IN
  CASE q.op = "SaveDocument" ->
         IF a[1].encrypt /\ Encrypt(a[1].data).err # Nil THEN << >>
         ELSE <<Req("Save", <<a[1].type, a[1].group, a[1].name,
                              IF a[1].encrypt THEN Encrypt(a[1].data).val ELSE a[1].data>>)>>
    [] q.op = "ListInstallations" -> <<Req("List", <<ItemTypeInstallations, a[1]>>)>>
    [] q.op = "ListClaims" -> <<Req("List", <<ItemTypeClaims, a[1]>>)>>
    [] q.op = "ListResults" -> <<Req("List", <<ItemTypeResults, a[1]>>)>>
    [] q.op = "ListOutputs" -> <<Req("List", <<ItemTypeOutputs, a[1]>>)>>
    [] q.op = "ReadInstallation" ->
         <<Req("Read", <<ItemTypeInstallations, InstallationKey(a[1], a[2])>>)>>
    [] q.op = "ReadAllInstallations" -> <<Req("ReadAll", <<ItemTypeInstallations, EmptyString>>)>>
    [] q.op = "ReadClaim" -> <<Req("Read", <<ItemTypeClaims, a[1]>>)>>
    [] q.op = "ReadAllClaims" -> <<Req("ReadAll", <<ItemTypeClaims, a[1]>>)>>
    [] q.op = "ReadResult" -> <<Req("Read", <<ItemTypeResults, a[1]>>)>>
    [] q.op = "ReadAllResults" -> <<Req("ReadAll", <<ItemTypeResults, a[1]>>)>>
    [] q.op = "ReadOutput" -> <<Req("Read", <<ItemTypeOutputs, outputKey(a[2].ID, a[3])>>)>>
    [] q.op = "ReadInstallationStatus" ->
         LET claimIds == ListClaims(st, a[1]) IN
         <<Req("ListClaims", <<a[1]>>)>>
         \o IF claimIds.err # Nil \/ Len(claimIds.val) = 0 THEN << >>
            ELSE <<Req("ReadClaim", <<LastKey(claimIds.val)>>),
                   Req("ListResults", <<LastKey(claimIds.val)>>)>>
                 \o IF Len(ListResults(st, LastKey(claimIds.val)).val) = 0 THEN << >>
                    ELSE <<Req("ReadResult",
                               <<LastKey(ListResults(st, LastKey(claimIds.val)).val)>>)>>
    [] q.op = "ReadAllInstallationStatus" ->
         LET names == ListInstallations(st, EmptyString) IN
         <<Req("ListInstallations", <<EmptyString>>)>>
         \o [k \in DOMAIN names.val |-> Req("ReadInstallationStatus", <<names.val[k]>>)]
    [] q.op = "ReadLastClaim" ->
         LET claimIds == BackingList(st, ItemTypeClaims, a[1]) IN
         <<Req("List", <<ItemTypeClaims, a[1]>>)>>
         \o IF Len(claimIds.val) = 0 THEN << >>
            ELSE <<Req("ReadClaim", <<LastKey(claimIds.val)>>)>>
    [] q.op = "ReadLastResult" ->
         LET resultIDs == BackingList(st, ItemTypeResults, a[1]) IN
         <<Req("List", <<ItemTypeResults, a[1]>>)>>
         \o IF Len(resultIDs.val) = 0 THEN << >>
            ELSE <<Req("ReadResult", <<LastKey(resultIDs.val)>>)>>
    [] q.op = "ReadLastOutputs" ->
         <<Req("ReadAllClaims", <<a[1]>>)>>
         \o LastOutputsCalls(st, ReadAllClaims(st, a[1]).val, EmptyString)
    [] q.op = "ReadLastOutput" ->
         <<Req("ReadAllClaims", <<a[1]>>)>>
         \o LastOutputsCalls(st, ReadAllClaims(st, a[1]).val, a[2])
    [] q.op = "SaveInstallation" -> <<Req("SaveDocument", <<InstallationDoc(a[1])>>)>>
    [] q.op = "SaveClaim" ->
         LET i == ReadInstallation(st, NamespaceGlobal, a[1].Installation) IN
         <<Req("SaveDocument", <<ClaimDoc(a[1])>>)>>
         \o IF ~IsModifyingAction(a[1]) THEN << >>
            ELSE <<Req("ReadInstallation", <<NamespaceGlobal, a[1].Installation>>)>>
                 \o IF i.err # Nil THEN << >>
                    ELSE <<Req("SaveInstallation", <<ApplyClaim(i.val, a[1])>>)>>
    [] q.op = "SaveResult" ->
         <<Req("SaveDocument", <<ResultDoc(a[1])>>)>>
         \o IF a[1].claim = NilClaim \/ ~IsModifyingAction(a[1].claim[1]) THEN << >>
            ELSE LET i == ReadInstallation(st, NamespaceGlobal, a[1].claim[1].Installation) IN
                 <<Req("ReadInstallation", <<NamespaceGlobal, a[1].claim[1].Installation>>)>>
                 \o IF i.err # Nil THEN << >>
                    ELSE <<Req("SaveInstallation", <<ApplyResult(i.val, a[1])>>)>>
    [] q.op = "SaveOutput" ->
         IF a[1].claim.ID = EmptyString \/ OutputData(a[1]).err # Nil THEN << >>
         ELSE <<Req("Save", <<ItemTypeOutputs, a[1].result.ID,
                              outputKey(a[1].result.ID, a[1].Name), OutputData(a[1]).val>>)>>
    [] q.op = "DeleteInstallation" ->
         <<Req("ListClaims", <<a[1]>>)>>
         \o [k \in DOMAIN ListClaims(st, a[1]).val |->
               Req("DeleteClaim", <<ListClaims(st, a[1]).val[k]>>)]
         \o <<Req("Delete", <<ItemTypeInstallations, a[1]>>)>>
    [] q.op = "DeleteClaim" ->
         <<Req("ListResults", <<a[1]>>)>>
         \o [k \in DOMAIN ListResults(st, a[1]).val |->
               Req("DeleteResult", <<ListResults(st, a[1]).val[k]>>)]
         \o <<Req("Delete", <<ItemTypeClaims, a[1]>>)>>
    [] q.op = "DeleteResult" -> DeleteResultCalls(st, a[1])
    [] q.op = "DeleteOutput" -> <<Req("Delete", <<ItemTypeOutputs, outputKey(a[1], a[2])>>)>>

\* HandleConnect and the function it returns, which the caller defers: a
\* HandleConnect that fails returns its error and a function that does nothing
HandleConnect(st) ==
  Req("HandleConnect", IF ConnectFails(st) THEN <<ErrConnectFailure>> ELSE << >>)
release(st) == Req("release", IF ConnectFails(st) THEN <<ErrConnectFailure>> ELSE << >>)

RECURSIVE Trace(_, _)
RECURSIVE Run(_, _)

\* Trace of methods that return on the error before they defer the release
Trace_ReleaseAfterCheck(st, q) ==
  IF q.op \in BackingCalls THEN <<HandleConnect(st), q, release(st)>>
  ELSE IF q.op \in HandleConnectScoped
  THEN IF ConnectFails(st) THEN <<HandleConnect(st)>>
       ELSE <<HandleConnect(st)>> \o Run(st, Body(st, q)) \o <<release(st)>>
  ELSE Run(st, Body(st, q))

\* what the backing store sees of a request: HandleConnect and the release
\* it returns around the body of a scoped method, which returns before its
\* body when HandleConnect fails, and around every call of the backing store
\* itself, which connects for the time of the call
Trace(st, q) ==
  IF q.op \in BackingCalls THEN <<HandleConnect(st), q, release(st)>>
  ELSE IF q.op \in HandleConnectScoped
  THEN IF ConnectFails(st) THEN <<HandleConnect(st), release(st)>>
       ELSE <<HandleConnect(st)>> \o Run(st, Body(st, q)) \o <<release(st)>>
  ELSE Run(st, Body(st, q))

Run(st, qs) ==
  IF qs = << >> THEN << >>
  ELSE LET returned == Invoke(st, Head(qs)) IN
       Trace(st, Head(qs))
       \o IF returned.err # Nil THEN << >> ELSE Run(returned.st, Tail(qs))

\* the connection of the backing store over a trace: HandleConnect connects
\* when nobody holds the connection, the release of the last holder closes
\* it; a HandleConnect that failed holds nothing and its release does nothing
RECURSIVE Connection(_, _, _)
Connection(trace, k, c) ==
  IF k > Len(trace) THEN c
  ELSE Connection(trace, k + 1,
         CASE trace[k].op \in {"HandleConnect", "release"} /\ trace[k].a # << >> -> c
           [] trace[k].op = "HandleConnect" ->
                [holders |-> c.holders + 1,
                 connects |-> IF c.holders = 0 THEN c.connects + 1 ELSE c.connects,
                 closes |-> c.closes]
           [] trace[k].op = "release" ->
                [holders |-> c.holders - 1, connects |-> c.connects,
                 closes |-> IF c.holders = 1 THEN c.closes + 1 ELSE c.closes]
           [] OTHER -> c)

\* MockStore.ResetCounts, then the request
Observed(st, q) ==
  Connection(Trace(st, q), 1, [holders |-> 0, connects |-> 0, closes |-> 0])

----------------------------------------------------------------------------
(* The documents the callers hand to the store. *)

Foo == <<102, 111, 111>>
Bar == <<98, 97, 114>>
InstallationNames == {Foo, Bar}

Output1 == <<97>>
Output2 == <<98>>
OutputNames == {Output1, Output2}
OutputValues == {[raw |-> "v1"], [raw |-> "v2"]}

\* the second version of the bundle no longer defines the first output
Bundle1 == [Version |-> "0.1.0", Outputs |-> {Output1, Output2}, Sensitive |-> {Output1},
            Modifies |-> {}, Labels |-> [k \in {"env"} |-> "dev"]]
Bundle2 == [Version |-> "0.2.0", Outputs |-> {Output2}, Sensitive |-> {}, Modifies |-> {},
            Labels |-> [k \in {"env", "app"} |-> IF k = "env" THEN "prod" ELSE "myapp"]]

\* claim IDs and result IDs are ULIDs: strings of one length whose order is
\* the order of creation
Claim1 == [ID |-> <<48, 49>>, Installation |-> Foo, Action |-> ActionInstall,
           Revision |-> "rev1", Bundle |-> Bundle1,
           BundleReference |-> "me/mybun:v0.1.0", BundleDigest |-> "sha256:abc123"]
Claim2 == [ID |-> <<48, 50>>, Installation |-> Foo, Action |-> ActionUpgrade,
           Revision |-> "rev2", Bundle |-> Bundle2,
           BundleReference |-> "me/mybun:v0.2.0", BundleDigest |-> "sha256:def456"]
Claim3 == [ID |-> <<48, 51>>, Installation |-> Foo, Action |-> "logs",
           Revision |-> "rev3", Bundle |-> Bundle2,
           BundleReference |-> "me/mybun:v0.2.0", BundleDigest |-> "sha256:def456"]
Claim4 == [ID |-> <<49, 48>>, Installation |-> Bar, Action |-> ActionInstall,
           Revision |-> "rev4", Bundle |-> Bundle1,
           BundleReference |-> "me/mybun:v0.1.0", BundleDigest |-> "sha256:abc123"]
ClaimDocs == {Claim1, Claim2, Claim3, Claim4}

ClaimByID(id) == CHOOSE c \in ClaimDocs : c.ID = id

\* the results a caller builds with Claim.NewResult; the result of Claim1 is
\* created after those of Claim2
ResultIDs == [r \in {<<50, 49>>, <<50, 50>>, <<50, 51>>} |->
               IF r = <<50, 51>> THEN Claim1.ID ELSE Claim2.ID]
ResultStatuses == {StatusRunning, StatusSucceeded}

\* the result of the claim of the action that modifies nothing, still running
LogsResult == [ID |-> <<50, 52>>, ClaimID |-> Claim3.ID, Status |-> StatusRunning,
               OutputMetadata |-> NoMetadata, claim |-> <<Claim3>>]

\* result 21 as TestCanUpdateOutputs saves it again: read back, one entry of
\* its OutputMetadata changed
UpdatedResult == [ID |-> <<50, 49>>, ClaimID |-> Claim2.ID, Status |-> StatusSucceeded,
                  OutputMetadata |-> {<<Output2, "baz">>}, claim |-> NilClaim]

\* Claim.NewResult, and the same result after a round trip through the store
ResultDocs ==
  {[ID |-> id, ClaimID |-> ResultIDs[id], Status |-> s,
    OutputMetadata |-> {<<Output2, "bar">>}, claim |-> p] :
     id \in DOMAIN ResultIDs, s \in ResultStatuses, p \in {NilClaim}}
  \cup
  {[ID |-> id, ClaimID |-> ResultIDs[id], Status |-> s,
    OutputMetadata |-> {<<Output2, "bar">>}, claim |-> <<ClaimByID(ResultIDs[id])>>] :
     id \in DOMAIN ResultIDs, s \in ResultStatuses}
  \cup {LogsResult, UpdatedResult}

\* the first instant of the clock, for the installations of the histories
Time0 == 0

----------------------------------------------------------------------------
(* Sequential histories: one caller, one store operation after the other. *)

\* a history in the manner of generateClaimData; a sequential history starts
\* from the store left by some prefix of it
Result21 == [ID |-> <<50, 49>>, ClaimID |-> Claim2.ID, Status |-> StatusSucceeded,
             OutputMetadata |-> {<<Output2, "bar">>}, claim |-> <<Claim2>>]

SeedOps ==
  << [op |-> "SaveInstallation", arg |-> NewInstallation(NamespaceGlobal, Foo, Bundle1, "", "", Time0).val],
     [op |-> "SaveClaim", arg |-> Claim1],
     [op |-> "SaveClaim", arg |-> Claim2],
     [op |-> "SaveResult", arg |-> Result21],
     [op |-> "SaveOutput", arg |-> NewOutput(Claim2, Result21, Output1, [raw |-> "v1"])],
     [op |-> "SaveOutput", arg |-> NewOutput(Claim2, Result21, Output2, [raw |-> "v1"])],
     [op |-> "SaveInstallation", arg |-> NewInstallation(NamespaceGlobal, Bar, Bundle1, "", "", Time0).val],
     [op |-> "SaveClaim", arg |-> Claim4] >>

ApplyOp(st, o) ==
  CASE o.op = "SaveInstallation" -> SaveInstallation(st, o.arg).st
    [] o.op = "SaveClaim" -> SaveClaim(st, o.arg).st
    [] o.op = "SaveResult" -> SaveResult(st, o.arg).st
    [] o.op = "SaveOutput" -> SaveOutput(st, o.arg).st

\* the prefixes of SeedOps a history starts from: the empty store, the bare
\* installation, the two claims, the result with its outputs, all of it
SeedPoints == {0, 1, 3, 6, Len(SeedOps)}

RECURSIVE Replay(_)
Replay(k) ==
  IF k = 0 THEN EmptyStore
  ELSE CHOOSE st \in {ApplyOp(prefix, SeedOps[k]) : prefix \in {Replay(k - 1)}} : TRUE

NewStore ==
  /\ emptyGroupIsError \in BOOLEAN
  /\ listReversed \in BOOLEAN
  /\ crypto \in {"noop", "b64"}
  /\ \E k \in SeedPoints : store = Replay(k)
  /\ last = [op |-> "NewClaimStore", arg |-> << >>, err |-> Nil]
  /\ ops = 0
  /\ pc = << >> /\ call = << >> /\ held = << >> /\ local = << >> /\ calls = << >>
  /\ inst0 = << >>
  /\ driver = << >>

\* histories that record each call and what it returned
Init == NewStore /\ recording = TRUE

\* the same histories seen through the content of the store only
InitStore == NewStore /\ recording = FALSE

Returned(op, arg, res) ==
  /\ ops' = ops + 1
  /\ store' = res.st
  /\ last' = IF recording THEN [op |-> op, arg |-> arg, err |-> res.err] ELSE last
  /\ UNCHANGED <<backing, recording, concVars>>

DoSaveInstallation ==
  \E name \in InstallationNames :
    /\ ops < MaxOps
    /\ LET i == NewInstallation(NamespaceGlobal, name, Bundle1, "", "", Time0).val IN
       Returned("SaveInstallation", i, SaveInstallation(store, i))

DoSaveClaim ==
  \E c \in ClaimDocs :
    /\ ops < MaxOps
    /\ Returned("SaveClaim", c, SaveClaim(store, c))

DoSaveResult ==
  \E r \in ResultDocs :
    /\ ops < MaxOps
    /\ Returned("SaveResult", r, SaveResult(store, r))

DoSaveOutput ==
  \E r \in ResultDocs, name \in OutputNames, value \in OutputValues :
    /\ ops < MaxOps
    /\ r.claim # NilClaim
    /\ r.Status = StatusSucceeded
    /\ LET o == NewOutput(r.claim[1], r, name, value) IN
       Returned("SaveOutput", o, SaveOutput(store, o))

DoDeleteInstallation ==
  \E name \in InstallationNames :
    /\ ops < MaxOps
    /\ Returned("DeleteInstallation", name, DeleteInstallation(store, name))

DoDeleteClaim ==
  \E c \in ClaimDocs :
    /\ ops < MaxOps
    /\ Returned("DeleteClaim", c.ID, DeleteClaim(store, c.ID))

DoDeleteResult ==
  \E id \in DOMAIN ResultIDs :
    /\ ops < MaxOps
    /\ Returned("DeleteResult", id, DeleteResult(store, id))

DoDeleteOutput ==
  \E id \in DOMAIN ResultIDs, name \in OutputNames :
    /\ ops < MaxOps
    /\ Returned("DeleteOutput", <<id, name>>, DeleteOutput(store, id, name))

Next ==
  \/ DoSaveInstallation
  \/ DoSaveClaim
  \/ DoSaveResult
  \/ DoSaveOutput
  \/ DoDeleteInstallation
  \/ DoDeleteClaim
  \/ DoDeleteResult
  \/ DoDeleteOutput

Spec == Init /\ [][Next]_vars

SpecStore == InitStore /\ [][Next]_vars

\* the histories under one encryption pair and one listing order (what the
\* backing store sees of a call depends on neither); the store a history
\* starts from counts as its first operation
InitSession ==
  /\ emptyGroupIsError \in BOOLEAN /\ listReversed = FALSE /\ crypto = "noop"
  /\ \E k \in SeedPoints \ {0} : store = Replay(k)
  /\ last = [op |-> "NewClaimStore", arg |-> << >>, err |-> Nil]
  /\ recording = FALSE
  /\ ops = 1
  /\ pc = << >> /\ call = << >> /\ held = << >> /\ local = << >> /\ calls = << >>
  /\ inst0 = << >>
  /\ driver = << >>

SpecSession == InitSession /\ [][Next]_vars

\* the calls of the backing store that can fail
Faults == BackingCalls \X ItemTypes

\* the histories on a backing store that fails one kind of call on one item
\* type from the start of the history on
InitFailing ==
  /\ emptyGroupIsError \in BOOLEAN /\ listReversed = FALSE /\ crypto = "noop"
  /\ \E k \in {6, Len(SeedOps)}, f \in Faults \cup {ConnectFault} :
       store = [Replay(k) EXCEPT !["failing"] = {f}]
  /\ last = [op |-> "NewClaimStore", arg |-> << >>, err |-> Nil]
  /\ recording = TRUE
  /\ ops = 1
  /\ pc = << >> /\ call = << >> /\ held = << >> /\ local = << >> /\ calls = << >>
  /\ inst0 = << >>
  /\ driver = << >>

SpecFailing == InitFailing /\ [][Next]_vars

TypeOK == ops \in 0..MaxOps

----------------------------------------------------------------------------
(* Status derivation on the write path. *)

InstallationOf(name) == ReadInstallation(store, NamespaceGlobal, name)

\* C1: once SaveClaim(c) has returned without error for a claim c of a
\* modifying action, and nothing else has been written since, reading the
\* installation of c gives Status.ClaimID = c.ID, Status.Action = c.Action
\* and Status.Revision = c.Revision.
C1_SaveClaimSetsStatus ==
  (last.op = "SaveClaim" /\ last.err = Nil /\ IsModifyingAction(last.arg)) =>
    LET i == InstallationOf(last.arg.Installation) IN
      /\ i.err = Nil
      /\ i.val.Status.ClaimID = last.arg.ID
      /\ i.val.Status.Action = last.arg.Action
      /\ i.val.Status.Revision = last.arg.Revision

\* a second modifying claim of foo has been saved over the status of the first
C1_Witness ==
  /\ last.op = "SaveClaim" /\ last.err = Nil /\ last.arg = Claim1
  /\ Claim2.ID \in DOMAIN store[ItemTypeClaims]
  /\ InstallationOf(Foo).val.Status.ClaimID = Claim1.ID

\* C2: once SaveResult(r) has returned without error for a result r that
\* carries a reference to a claim of a modifying action, and nothing else has
\* been written since, reading the installation gives Status.ResultID = r.ID
\* and Status.ResultStatus = r.Status.
C2_SaveResultSetsStatus ==
  (/\ last.op = "SaveResult" /\ last.err = Nil
   /\ last.arg.claim # NilClaim /\ IsModifyingAction(last.arg.claim[1])) =>
    LET i == InstallationOf(last.arg.claim[1].Installation) IN
      /\ i.err = Nil
      /\ i.val.Status.ResultID = last.arg.ID
      /\ i.val.Status.ResultStatus = last.arg.Status

\* a result has been saved over the status left by another result
C2_Witness ==
  /\ last.op = "SaveResult" /\ last.err = Nil
  /\ last.arg.claim = <<Claim2>> /\ last.arg.ID = <<50, 50>>
  /\ last.arg.Status = StatusRunning
  /\ Result21.ID \in DOMAIN store[ItemTypeResults]
  /\ InstallationOf(Foo).val.Status.ResultID = <<50, 50>>

\* C3: in a sequential history of SaveClaim and SaveResult calls on one
\* installation, after SaveResult(r) has returned for an r that belongs to a
\* saved claim of a modifying action, the installation shows
\* Status.ClaimID = r.ClaimID and Status.ResultStatus = r.Status, for every
\* such r, a result of an older claim included.
C3_SaveResultShowsItsClaim ==
  (/\ last.op = "SaveResult" /\ last.err = Nil
   /\ last.arg.claim # NilClaim /\ IsModifyingAction(last.arg.claim[1])
   /\ last.arg.ClaimID \in DOMAIN store[ItemTypeClaims]) =>
    LET i == InstallationOf(last.arg.claim[1].Installation) IN
      /\ i.err = Nil
      /\ i.val.Status.ClaimID = last.arg.ClaimID
      /\ i.val.Status.ResultStatus = last.arg.Status

----------------------------------------------------------------------------
(* The derived reads. *)

StoredClaims(installation) == GroupKeys(store, ItemTypeClaims, installation)
StoredResults(claimID) == GroupKeys(store, ItemTypeResults, claimID)

\* id is the greatest of the strings of S
Greatest(id, S) == id \in S /\ \A k \in S : k = id \/ StrLess(k, id)

\* the document that was serialized into the stored bytes
PlainOf(data) == IF IsCipher(data) THEN data.cipher ELSE data

\* C6: whatever the order in which claims were saved for an installation,
\* and results for a claim, ReadLastClaim returns the stored claim of the
\* greatest ID and ReadLastResult the stored result of the greatest ID.
C6_ReadLastIsGreatest ==
  /\ \A name \in InstallationNames :
       StoredClaims(name) # {} =>
         LET c == ReadLastClaim(store, name) IN
           /\ c.err = Nil
           /\ Greatest(c.val.ID, StoredClaims(name))
           /\ c.val = PlainOf(store[ItemTypeClaims][c.val.ID].data).json
  /\ \A c \in ClaimDocs :
       StoredResults(c.ID) # {} =>
         LET r == ReadLastResult(store, c.ID) IN
           /\ r.err = Nil
           /\ Greatest(r.val.ID, StoredResults(c.ID))
           /\ ResultJSON(r.val) = store[ItemTypeResults][r.val.ID].data.json

\* two claims with two results of the later claim, saved in the course of the
\* history, and a backing store that lists the greater ID first
C6_Witness ==
  /\ ops = 2
  /\ StoredClaims(Foo) = {Claim1.ID, Claim2.ID}
  /\ StoredResults(Claim2.ID) = {<<50, 49>>, <<50, 50>>}
  /\ BackingList(store, ItemTypeResults, Claim2.ID).val[1] = <<50, 50>>
  /\ BackingList(store, ItemTypeClaims, Foo).val[1] = Claim2.ID
  /\ ReadLastResult(store, Claim2.ID).val.ID = <<50, 50>>
  /\ ReadLastClaim(store, Foo).val.ID = Claim2.ID

\* the results stored for the stored claims of an installation
ResultsOfInstallation(name) == UNION {StoredResults(c) : c \in StoredClaims(name)}

\* the results of the installation under which the output name is stored
WritersOf(name, output) ==
  {r \in ResultsOfInstallation(name) : outputKey(r, output) \in DOMAIN store[ItemTypeOutputs]}

\* the output names stored under the results of the installation
OutputsOfInstallation(name) ==
  {TrimPrefix(k, store[ItemTypeOutputs][k].group \o <<Dash>>) :
     k \in {k \in DOMAIN store[ItemTypeOutputs] :
              store[ItemTypeOutputs][k].group \in ResultsOfInstallation(name)}}

UnknownOutput == <<122>>

\* C8: ReadLastOutput(i, name) returns the output ReadLastOutputs(i) has
\* under name, "Output does not exist" when i has claims and no result of i
\* has the name, and "Installation does not exist" when i has no claims.
C8_ReadLastOutput ==
  \A name \in InstallationNames :
    LET all == ReadLastOutputs(store, name)
        stored == OutputsOfInstallation(name)
    IN \A output \in OutputNames \cup {UnknownOutput} :
         LET one == ReadLastOutput(store, name, output) IN
         IF StoredClaims(name) = {} THEN one.err = ErrInstallationNotFound
         ELSE IF output \in stored
         THEN /\ one.err = Nil /\ all.err = Nil
              /\ GetByName(all.val, output).ok
              /\ one.val = GetByName(all.val, output).val
         ELSE one.err = ErrOutputNotFound

\* the three cases: an output that a result saved in the course of the history
\* has last, a name no result has, and an installation without claims
C8_Witness ==
  /\ WritersOf(Foo, Output2) = {Result21.ID, <<50, 50>>}
  /\ ReadLastOutput(store, Foo, Output2).err = Nil
  /\ ReadLastOutput(store, Foo, Output2).val.result.ID = <<50, 50>>
  /\ ReadLastOutput(store, Foo, UnknownOutput).err = ErrOutputNotFound
  /\ StoredClaims(Bar) = {}
  /\ ReadLastOutput(store, Bar, Output1).err = ErrInstallationNotFound

----------------------------------------------------------------------------
(* Deleting an installation. *)

Deleted(name) ==
  /\ ops' = ops + 1
  /\ last'.op = "DeleteInstallation" /\ last'.arg = name

\* the keys of the records of an installation: its claims, their results,
\* the outputs of those results
TreeOf(st, name) ==
  LET cs == GroupKeys(st, ItemTypeClaims, name)
      rs == UNION {GroupKeys(st, ItemTypeResults, c) : c \in cs}
      os == UNION {GroupKeys(st, ItemTypeOutputs, r) : r \in rs}
  IN [t \in ItemTypes |->
        CASE t = ItemTypeInstallations -> {InstallationKey(NamespaceGlobal, name)}
          [] t = ItemTypeClaims -> cs
          [] t = ItemTypeResults -> rs
          [] t = ItemTypeOutputs -> os]

\* C9: when DeleteInstallation(name) returns without error, none of the
\* claims of the installation, of their results and of the outputs of those
\* results is left in the backing store, ListInstallations has no name,
\* ReadLastClaim(name) returns "Installation does not exist", and the
\* records of the other installations are as they were.
C9_DeleteInstallationCascades ==
  [][\A name \in InstallationNames :
       (Deleted(name) /\ last'.err = Nil) =>
         /\ \A t \in ItemTypes :
              /\ TreeOf(store, name)[t] \cap DOMAIN store'[t] = {}
              /\ \A k \in (DOMAIN store[t]) \ TreeOf(store, name)[t] :
                   k \in DOMAIN store'[t] /\ store'[t][k] = store[t][k]
              /\ DOMAIN store'[t] \subseteq DOMAIN store[t]
         /\ GroupKeys(store', ItemTypeClaims, name) = {}
         /\ name \notin Range(ListInstallations(store', NamespaceGlobal).val)
         /\ ReadLastClaim(store', name).err = ErrInstallationNotFound]_vars

\* foo has been deleted with its claims, result and outputs while bar stays
C9_Witness ==
  /\ last.op = "DeleteInstallation" /\ last.arg = Foo /\ last.err = Nil /\ ops = 1
  /\ DOMAIN store[ItemTypeClaims] = {Claim4.ID}
  /\ DOMAIN store[ItemTypeInstallations] = {Bar}
  /\ DOMAIN store[ItemTypeResults] = {} /\ DOMAIN store[ItemTypeOutputs] = {}

\* C10: DeleteInstallation(name) deletes the installation record of every
\* stored installation, with claims or without, so that afterwards
\* ReadInstallation of name returns "Installation does not exist".
C10_DeleteInstallationDeletesRecord ==
  last.op = "DeleteInstallation" =>
    InstallationOf(last.arg).err = ErrInstallationNotFound

----------------------------------------------------------------------------
(* Round trips and the bytes at rest. *)

\* what the point read matching a saved document returns
ReadBack(op, x) ==
  CASE op = "SaveInstallation" -> ReadInstallation(store, x.Namespace, x.Name)
    [] op = "SaveClaim" -> ReadClaim(store, x.ID)
    [] op = "SaveResult" -> ReadResult(store, x.ID)
    [] op = "SaveOutput" -> ReadOutput(store, x.claim, x.result, x.Name)

\* C11: once a save of an installation, claim, result or output x has
\* returned without error, under either encryption pair (both decrypt what
\* they encrypt), the matching point read (ReadInstallation, ReadClaim,
\* ReadResult, ReadOutput with the same claim and result) returns x with its
\* persisted fields unchanged; for a Result these are ID, ClaimID and Status.
C11_SaveThenRead ==
  (last.op \in {"SaveInstallation", "SaveClaim", "SaveResult", "SaveOutput"}
     /\ last.err = Nil) =>
    /\ ReadBack(last.op, last.arg).err = Nil
    /\ IF last.op = "SaveResult"
       THEN ResultJSON(ReadBack(last.op, last.arg).val) = ResultJSON(last.arg)
       ELSE ReadBack(last.op, last.arg).val = last.arg

\* a sensitive output saved under the encoding pair lies encoded in the
\* store and is read back as it was saved
C11_Witness ==
  /\ last.op = "SaveOutput" /\ last.err = Nil /\ crypto = "b64"
  /\ last.arg.Name = Output1 /\ last.arg.claim = Claim1
  /\ IsCipher(store[ItemTypeOutputs][outputKey(last.arg.result.ID, Output1)].data)
  /\ ReadBack(last.op, last.arg) = [err |-> Nil, val |-> last.arg]

\* the claim a stored output was saved for: the claim of its result
ClaimOfResult(resultID) == ClaimByID(ResultIDs[resultID])

\* the bytes of the stored records, as a direct read of the backing store
\* gives them
RawBytes(itemType) == {store[itemType][k].data : k \in DOMAIN store[itemType]}

\* C12: in every state the raw bytes of a stored claim are the encryption
\* of its serialization, installations and results are stored plain, and a
\* stored output is the encryption of its Value if the bundle of its claim
\* marks the output sensitive and the Value verbatim otherwise, an output the
\* bundle does not define counting as not sensitive; ReadOutput for the same
\* claim decrypts exactly the outputs SaveOutput encrypted and returns the
\* Value.
C12_BytesAtRest ==
  /\ \A k \in DOMAIN store[ItemTypeClaims] :
       store[ItemTypeClaims][k].data = Encrypt([json |-> ClaimByID(k)]).val
  /\ \A b \in RawBytes(ItemTypeInstallations) \cup RawBytes(ItemTypeResults) :
       DOMAIN b = {"json"}
  /\ \A rid \in DOMAIN ResultIDs, name \in OutputNames :
       LET key == outputKey(rid, name)
           c == ClaimOfResult(rid)
           read == ReadOutput(store, c, CHOOSE r \in ResultDocs : r.ID = rid, name)
       IN key \in DOMAIN store[ItemTypeOutputs] =>
            /\ read.err = Nil
            /\ read.val.Value \in OutputValues
            /\ store[ItemTypeOutputs][key].data =
                 IF name \in c.Bundle.Outputs /\ name \in c.Bundle.Sensitive
                 THEN Encrypt(read.val.Value).val
                 ELSE read.val.Value

\* under the encoding pair: a claim stored encoded, a sensitive output stored
\* encoded, an output of the same name the bundle of its claim does not
\* define stored verbatim, and a defined output that is not sensitive
C12_Witness ==
  /\ crypto = "b64" /\ ops > 0
  /\ \E k \in DOMAIN store[ItemTypeClaims] : IsCipher(store[ItemTypeClaims][k].data)
  /\ outputKey(<<50, 51>>, Output1) \in DOMAIN store[ItemTypeOutputs]
  /\ IsCipher(store[ItemTypeOutputs][outputKey(<<50, 51>>, Output1)].data)
  /\ outputKey(<<50, 49>>, Output1) \in DOMAIN store[ItemTypeOutputs]
  /\ store[ItemTypeOutputs][outputKey(<<50, 49>>, Output1)].data \in OutputValues
  /\ outputKey(<<50, 49>>, Output2) \in DOMAIN store[ItemTypeOutputs]
  /\ store[ItemTypeOutputs][outputKey(<<50, 49>>, Output2)].data \in OutputValues

----------------------------------------------------------------------------
(* Connections. *)

\* Output{}: an output that NewOutput did not build has no claim
ZeroClaim ==
  [ID |-> EmptyString, Installation |-> EmptyString, Action |-> "", Revision |-> "",
   BundleReference |-> "", BundleDigest |-> "",
   Bundle |-> [Version |-> "", Outputs |-> {}, Sensitive |-> {}, Modifies |-> {},
               Labels |-> EmptyMap]]
ZeroOutput == [claim |-> ZeroClaim, result |-> Result21, Name |-> Output1, Value |-> [raw |-> "v1"]]

OutputDocs ==
  {NewOutput(r.claim[1], r, name, [raw |-> "v1"]) :
     r \in {d \in ResultDocs : d.claim # NilClaim /\ d.Status = StatusSucceeded},
     name \in OutputNames}

\* the calls of the public methods of the Store, over the documents of the
\* histories: those that take names and ids, then those that take documents
PublicRequests ==
 <<
  {Req("ListInstallations", <<EmptyString>>), Req("ReadAllInstallations", << >>),
   Req("ReadAllInstallationStatus", << >>)}
  \cup {Req(op, <<name>>) :
          op \in {"ListClaims", "ReadInstallationStatus", "ReadAllClaims", "ReadLastClaim",
                  "ReadLastOutputs", "DeleteInstallation"},
          name \in InstallationNames}
  \cup {Req("ReadInstallation", <<NamespaceGlobal, name>>) : name \in InstallationNames}
  \cup {Req(op, <<c.ID>>) :
          op \in {"ListResults", "ReadClaim", "ReadAllResults", "ReadLastResult", "DeleteClaim"},
          c \in ClaimDocs}
  \cup {Req(op, <<id>>) : op \in {"ListOutputs", "ReadResult", "DeleteResult"},
                          id \in DOMAIN ResultIDs}
  \cup {Req("ReadLastOutput", <<name, output>>) :
          name \in InstallationNames, output \in OutputNames}
  \cup {Req("DeleteOutput", <<id, output>>) : id \in DOMAIN ResultIDs, output \in OutputNames},
  {Req("ReadOutput", <<o.claim, o.result, o.Name>>) : o \in OutputDocs},
  {Req("SaveInstallation", <<NewInstallation(NamespaceGlobal, name, Bundle1, "", "", Time0).val>>) :
     name \in InstallationNames},
  {Req("SaveClaim", <<c>>) : c \in ClaimDocs},
  {Req("SaveResult", <<r>>) : r \in {d \in ResultDocs : d.Status = StatusSucceeded}},
  {Req("SaveOutput", <<o>>) : o \in OutputDocs \cup {ZeroOutput}}
 >>

SingleConnection(q) ==
  LET c == Observed(store, q) IN c.holders = 0 /\ c.connects = 1 /\ c.closes = 1

----------------------------------------------------------------------------
(* What a save leaves alone. *)

\* the item type and the key of the record SaveClaim or SaveResult writes
OwnRecord(op, x) ==
  IF op = "SaveClaim" THEN [type |-> ItemTypeClaims, key |-> x.ID]
  ELSE [type |-> ItemTypeResults, key |-> x.ID]

\* whether a SaveClaim or SaveResult leaves the installation alone: a claim of
\* a non-modifying action, a result whose claim is nil or of such an action
NonModifying(op, x) ==
  IF op = "SaveClaim" THEN ~IsModifyingAction(x)
  ELSE x.claim = NilClaim \/ ~IsModifyingAction(x.claim[1])

\* C14: a step SaveClaim(c) for a claim of a non-modifying action, and a step
\* SaveResult(r) for a result whose claim is nil or of a non-modifying action,
\* returns nil, writes the claim record (the result record) and nothing else:
\* every installation record, every output and every other claim and result
\* is as before.
C14_NonModifyingFrame ==
  [][(ops' = ops + 1 /\ last'.op \in {"SaveClaim", "SaveResult"}
        /\ NonModifying(last'.op, last'.arg)) =>
       LET own == OwnRecord(last'.op, last'.arg) IN
       /\ last'.err = Nil
       /\ own.key \in DOMAIN store'[own.type]
       /\ \A t \in ItemTypes : \A k \in DOMAIN store[t] \cup DOMAIN store'[t] :
            (t # own.type \/ k # own.key) =>
              /\ k \in DOMAIN store[t] /\ k \in DOMAIN store'[t]
              /\ store'[t][k] = store[t][k]]_vars

\* the installation shows the upgrade and its result after the claim of the
\* non-modifying action and its result were saved
C14_Witness ==
  /\ last.op = "SaveResult" /\ last.arg = LogsResult /\ last.err = Nil
  /\ Claim3.ID \in DOMAIN store[ItemTypeClaims]
  /\ LogsResult.ID \in DOMAIN store[ItemTypeResults]
  /\ InstallationOf(Foo).err = Nil
  /\ InstallationOf(Foo).val.Status.ClaimID = Claim2.ID
  /\ InstallationOf(Foo).val.Status.ResultID = Result21.ID

----------------------------------------------------------------------------
(* The status and the records it names. *)

\* C15: in every state, the Status of every stored installation with a
\* non-empty Status.ResultID names a stored result: ReadResult of
\* Status.ResultID succeeds and the ClaimID of that result is
\* Status.ClaimID.
C15_StatusReferencesResult ==
  \A name \in InstallationNames :
    (InstallationOf(name).err = Nil
       /\ InstallationOf(name).val.Status.ResultID # EmptyString) =>
      /\ ReadResult(store, InstallationOf(name).val.Status.ResultID).err = Nil
      /\ ReadResult(store, InstallationOf(name).val.Status.ResultID).val.ClaimID =
           InstallationOf(name).val.Status.ClaimID

----------------------------------------------------------------------------
(* Empty groups and records that are not there. *)

NoResults == [err |-> Nil, val |-> << >>]

\* C16: whenever the backing store answers the listing (the reading) of the
\* results of a claim or of the outputs of a result with "record does not
\* exist", the group being empty, ListResults and ReadAllResults of the claim
\* and ListOutputs of the result return the empty list and no error.
C16_EmptyGroups ==
  /\ \A c \in ClaimDocs :
       /\ BackingList(store, ItemTypeResults, c.ID).err = ErrRecordDoesNotExist =>
            ListResults(store, c.ID) = NoResults
       /\ BackingReadAll(store, ItemTypeResults, c.ID).err = ErrRecordDoesNotExist =>
            ReadAllResults(store, c.ID) = NoResults
  /\ \A r \in ResultDocs :
       BackingList(store, ItemTypeOutputs, r.ID).err = ErrRecordDoesNotExist =>
         ListOutputs(store, r.ID) = NoResults

\* a claim saved in the history has no result and a stored result has no
\* output, and the backing store reports both by the error
C16_Witness ==
  /\ ops > 0
  /\ Claim3.ID \in DOMAIN store[ItemTypeClaims]
  /\ BackingList(store, ItemTypeResults, Claim3.ID).err = ErrRecordDoesNotExist
  /\ BackingReadAll(store, ItemTypeResults, Claim3.ID).err = ErrRecordDoesNotExist
  /\ ListResults(store, Claim3.ID) = NoResults
  /\ ReadAllResults(store, Claim3.ID) = NoResults
  /\ <<50, 50>> \in DOMAIN store[ItemTypeResults]
  /\ BackingList(store, ItemTypeOutputs, <<50, 50>>).err = ErrRecordDoesNotExist
  /\ ListOutputs(store, <<50, 50>>) = NoResults

Absent(itemType, key) == key \notin DOMAIN store[itemType]

\* C17: in every state, for a record that is not stored, ReadInstallation
\* returns "Installation does not exist", ReadClaim "Claim does not exist",
\* ReadResult "Result does not exist" and ReadOutput "Output does not exist",
\* and DeleteInstallation, DeleteClaim, DeleteResult and DeleteOutput return
\* the same errors; for an installation no claim is stored for, ListClaims,
\* ReadAllClaims and ReadLastClaim return "Installation does not exist".
C17_TypedNotFound ==
  /\ \A name \in InstallationNames :
       /\ Absent(ItemTypeInstallations, InstallationKey(NamespaceGlobal, name)) =>
            /\ ReadInstallation(store, NamespaceGlobal, name).err = ErrInstallationNotFound
            /\ DeleteInstallation(store, name).err = ErrInstallationNotFound
       /\ StoredClaims(name) = {} =>
            /\ ListClaims(store, name).err = ErrInstallationNotFound
            /\ ReadAllClaims(store, name).err = ErrInstallationNotFound
            /\ ReadLastClaim(store, name).err = ErrInstallationNotFound
  /\ \A c \in ClaimDocs :
       Absent(ItemTypeClaims, c.ID) =>
         /\ ReadClaim(store, c.ID).err = ErrClaimNotFound
         /\ DeleteClaim(store, c.ID).err = ErrClaimNotFound
  /\ \A r \in ResultDocs :
       /\ Absent(ItemTypeResults, r.ID) =>
            /\ ReadResult(store, r.ID).err = ErrResultNotFound
            /\ DeleteResult(store, r.ID).err = ErrResultNotFound
       /\ \A name \in OutputNames :
            Absent(ItemTypeOutputs, outputKey(r.ID, name)) =>
              /\ ReadOutput(store, ClaimByID(r.ClaimID), r, name).err = ErrOutputNotFound
              /\ DeleteOutput(store, r.ID, name).err = ErrOutputNotFound

\* after a history: claims of an installation whose record is absent, an
\* installation without claims, an absent result that still has an output
C17_Witness ==
  /\ ops > 0
  /\ Absent(ItemTypeInstallations, Foo) /\ StoredClaims(Foo) # {}
  /\ DeleteInstallation(store, Foo).err = ErrInstallationNotFound
  /\ StoredClaims(Bar) = {}
  /\ ReadLastClaim(store, Bar).err = ErrInstallationNotFound
  /\ Absent(ItemTypeResults, <<50, 51>>)
  /\ ~Absent(ItemTypeOutputs, outputKey(<<50, 51>>, Output1))
  /\ DeleteResult(store, <<50, 51>>).err = ErrResultNotFound

----------------------------------------------------------------------------
(* Failures of the backing store. *)

\* whether a call of the backing store fails in the course of the request
HitsFailure(st, q) ==
  LET t == Trace(st, q) IN
  \E j \in DOMAIN t : t[j].op \in BackingCalls /\ Fails(st, t[j].op, t[j].a[1])

\* C18: whenever a call of the backing store fails with an error other than
\* "record does not exist" in the course of a store operation, the operation
\* returns that error unchanged; so do ListClaims, ReadInstallationStatus,
\* DeleteInstallation, ListResults and ListOutputs when the listing fails.
C18_FailureSurfaces ==
  \A k \in DOMAIN PublicRequests : \A q \in PublicRequests[k] :
    HitsFailure(store, q) => Invoke(store, q).err = FailureOf(store)

----------------------------------------------------------------------------
(* A stored claim without results. *)

WithoutResults(c) == c.ID \in DOMAIN store[ItemTypeClaims] /\ StoredResults(c.ID) = {}

\* C19: in every state, for a stored claim that has no results, whichever way
\* the backing store reports the empty group, ReadLastResult of the claim
\* returns the error "claim has no results" and ListResults of the claim
\* returns the empty list and no error.
C19_NoResultsYet ==
  \A c \in ClaimDocs :
    WithoutResults(c) =>
      /\ ReadLastResult(store, c.ID).err = ErrNoResults
      /\ ListResults(store, c.ID) = NoResults

----------------------------------------------------------------------------
(* Saving a result again. *)

\* a step SaveResult(r) for a result whose ID is stored under the claim of r
Resaves(r) ==
  /\ ops' = ops + 1 /\ last'.op = "SaveResult" /\ last'.arg = r
  /\ r.ID \in StoredResults(r.ClaimID)

\* the record of r is replaced: the same keys, the same list, and ReadResult
\* returns what was saved
Replaces(r) ==
  /\ DOMAIN store'[ItemTypeResults] = DOMAIN store[ItemTypeResults]
  /\ ListResults(store', r.ClaimID) = ListResults(store, r.ClaimID)
  /\ ReadResult(store', r.ID).err = Nil
  /\ ResultJSON(ReadResult(store', r.ID).val) = ResultJSON(r)

\* C20 as stated: a step SaveResult(r) for a result whose ID is stored under
\* the claim of r replaces that record, no second record is created and the
\* list of the results of the claim keeps its length, and ReadResult(r.ID) and
\* ReadLastResult(r.ClaimID) both return the Status and OutputMetadata of r.
C20_ResaveReadLast ==
  [][\A r \in ResultDocs :
       Resaves(r) =>
         /\ Replaces(r)
         /\ ResultJSON(ReadLastResult(store', r.ClaimID).val) = ResultJSON(r)]_vars

\* C20: a step SaveResult(r) for a result whose ID is stored under the claim
\* of r replaces that record, no second record is created and the list of the
\* results of the claim keeps its length, and ReadResult(r.ID) returns the
\* Status and OutputMetadata of r; ReadLastResult(r.ClaimID) returns them when
\* r.ID is the greatest ID of the results of the claim, and the record of the
\* greatest ID, as it was before the step, otherwise.
C20_ResaveReplaces ==
  [][\A r \in ResultDocs :
       Resaves(r) =>
         /\ Replaces(r)
         /\ ReadLastResult(store', r.ClaimID).err = Nil
         /\ IF Greatest(r.ID, StoredResults(r.ClaimID))
            THEN ResultJSON(ReadLastResult(store', r.ClaimID).val) = ResultJSON(r)
            ELSE ReadLastResult(store', r.ClaimID) = ReadLastResult(store, r.ClaimID)]_vars

\* result 21, the only result of its claim, stored with its outputs before the
\* history, was saved again with other OutputMetadata and is read back so
C20_Witness ==
  /\ ops = 1
  /\ last = [op |-> "SaveResult", arg |-> UpdatedResult, err |-> Nil]
  /\ outputKey(UpdatedResult.ID, Output1) \in DOMAIN store[ItemTypeOutputs]
  /\ Len(ListResults(store, Claim2.ID).val) = 1
  /\ ReadResult(store, UpdatedResult.ID).val.OutputMetadata = {<<Output2, "baz">>}
  /\ ReadLastResult(store, Claim2.ID).val.OutputMetadata = {<<Output2, "baz">>}

----------------------------------------------------------------------------
(* The order of what the lists and the bulk reads return. *)

\* the strings of s are in ascending order, none twice
Ascending(s) == \A i \in 1..(Len(s) - 1) : StrLess(s[i], s[i + 1])

\* s lists the strings of S
Lists(s, S) == {s[i] : i \in DOMAIN s} = S /\ Len(s) = Cardinality(S)

\* the field of each record of the sequence
FieldSeq(records, field) == [i \in DOMAIN records |-> records[i][field]]

\* the names of the outputs stored under the result
StoredOutputs(resultID) ==
  {name \in OutputNames : outputKey(resultID, name) \in DOMAIN store[ItemTypeOutputs]}

\* C21: in every state, whatever the order in which the backing store lists
\* the keys, ListInstallations, ListClaims, ListResults and ListOutputs return
\* the keys of the group in ascending order, and ReadAllInstallations,
\* ReadAllClaims and ReadAllResults, when they return no error, return the
\* records of the group in the ascending order of Name, of the claim ID and of
\* the result ID.
C21_ListsAscending ==
  /\ LET names == ListInstallations(store, EmptyString).val
         installations == ReadAllInstallations(store) IN
       /\ Ascending(names) /\ Lists(names, GroupKeys(store, ItemTypeInstallations, NamespaceGlobal))
       /\ installations.err = Nil =>
            /\ Ascending(FieldSeq(installations.val, "Name"))
            /\ Lists(FieldSeq(installations.val, "Name"), {names[i] : i \in DOMAIN names})
  /\ \A name \in InstallationNames :
       LET ids == ListClaims(store, name).val
           claims == ReadAllClaims(store, name) IN
       /\ Ascending(ids) /\ Lists(ids, StoredClaims(name))
       /\ claims.err = Nil =>
            Ascending(FieldSeq(claims.val, "ID")) /\ Lists(FieldSeq(claims.val, "ID"), StoredClaims(name))
  /\ \A c \in ClaimDocs :
       LET ids == ListResults(store, c.ID).val
           results == ReadAllResults(store, c.ID) IN
       /\ Ascending(ids) /\ Lists(ids, StoredResults(c.ID))
       /\ results.err = Nil =>
            Ascending(FieldSeq(results.val, "ID")) /\ Lists(FieldSeq(results.val, "ID"), StoredResults(c.ID))
  /\ \A r \in ResultDocs :
       LET names == ListOutputs(store, r.ID).val IN
       Ascending(names) /\ Lists(names, StoredOutputs(r.ID))

\* two installations, two claims, two results and two outputs, saved in part
\* in the course of the history, that the backing store lists in descending
\* order and the store in ascending order
C21_Witness ==
  /\ ops > 0
  /\ ~Ascending(BackingList(store, ItemTypeInstallations, NamespaceGlobal).val)
  /\ ListInstallations(store, EmptyString).val = <<Bar, Foo>>
  /\ FieldSeq(ReadAllInstallations(store).val, "Name") = <<Bar, Foo>>
  /\ ~Ascending(BackingList(store, ItemTypeClaims, Foo).val)
  /\ ListClaims(store, Foo).val = <<Claim1.ID, Claim2.ID>>
  /\ FieldSeq(ReadAllClaims(store, Foo).val, "ID") = <<Claim1.ID, Claim2.ID>>
  /\ ~Ascending(BackingList(store, ItemTypeResults, Claim2.ID).val)
  /\ ListResults(store, Claim2.ID).val = <<<<50, 49>>, <<50, 50>>>>
  /\ FieldSeq(ReadAllResults(store, Claim2.ID).val, "ID") = <<<<50, 49>>, <<50, 50>>>>
  /\ ~Ascending(BackingList(store, ItemTypeOutputs, <<50, 49>>).val)
  /\ ListOutputs(store, <<50, 49>>).val = <<Output1, Output2>>

----------------------------------------------------------------------------
(* The keys of the outputs.  The histories here save and delete outputs    *)
(* under names that themselves start with the ID of a result and a dash.   *)

\* "21-a": the ID of result 21, a dash, and the name of the first output
PrefixedName == <<50, 49, 45>> \o Output1

KeyedNames == OutputNames \cup {PrefixedName}

\* the results with their claim attached, as Claim.NewResult returns them
AttachedResults == {r \in ResultDocs : r.claim # NilClaim /\ r.Status = StatusSucceeded}

InitKeys ==
  /\ emptyGroupIsError \in BOOLEAN /\ listReversed \in BOOLEAN /\ crypto \in {"noop", "b64"}
  /\ \E k \in {4, 6} : store = Replay(k)
  /\ last = [op |-> "NewClaimStore", arg |-> << >>, err |-> Nil]
  /\ recording = TRUE
  /\ ops = 0
  /\ pc = << >> /\ call = << >> /\ held = << >> /\ local = << >> /\ calls = << >>
  /\ inst0 = << >>
  /\ driver = << >>

DoSaveKeyedOutput ==
  \E r \in AttachedResults, name \in KeyedNames :
    /\ ops < MaxOps
    /\ LET o == NewOutput(r.claim[1], r, name, [raw |-> "v2"]) IN
       Returned("SaveOutput", o, SaveOutput(store, o))

DoDeleteKeyedOutput ==
  \E r \in AttachedResults, name \in KeyedNames :
    /\ ops < MaxOps
    /\ Returned("DeleteOutput", <<r.ID, name>>, DeleteOutput(store, r.ID, name))

NextKeys == DoSaveKeyedOutput \/ DoDeleteKeyedOutput

SpecKeys == InitKeys /\ [][NextKeys]_vars

\* the key under which the claim has the output n of result r stored
KeyOf(r, n) == r \o <<45>> \o n

\* the names under which an output of the result is stored
NamesUnder(r) == {n \in KeyedNames : KeyOf(r, n) \in DOMAIN store[ItemTypeOutputs]}

\* C22: in every state, the output that the last SaveOutput saved with name n
\* under result r is stored under the key r + "-" + n; ListOutputs(r) returns
\* exactly the names the outputs of r were saved with, also the names that
\* start with r + "-"; and for every name n that ListOutputs(r) returns,
\* ReadOutput(r, n) returns the record stored under r + "-" + n and
\* DeleteOutput(r, n) deletes that record and no other.
C22_OutputKeys ==
  /\ (last.op = "SaveOutput" /\ last.err = Nil) =>
       LET key == KeyOf(last.arg.result.ID, last.arg.Name) IN
       /\ key \in DOMAIN store[ItemTypeOutputs]
       /\ store[ItemTypeOutputs][key].group = last.arg.result.ID
       /\ PlainOf(store[ItemTypeOutputs][key].data) = last.arg.Value
  /\ \A r \in AttachedResults :
       LET names == ListOutputs(store, r.ID) IN
       /\ names.err = Nil
       /\ {names.val[i] : i \in DOMAIN names.val} = NamesUnder(r.ID)
       /\ Len(names.val) = Cardinality(NamesUnder(r.ID))
       /\ \A i \in DOMAIN names.val :
            LET n == names.val[i]
                read == ReadOutput(store, r.claim[1], r, n)
                deleted == DeleteOutput(store, r.ID, n) IN
            /\ read.err = Nil
            /\ read.val.Name = n
            /\ read.val.Value = PlainOf(store[ItemTypeOutputs][KeyOf(r.ID, n)].data)
            /\ deleted.err = Nil
            /\ deleted.st = [store EXCEPT ![ItemTypeOutputs] = Remove(@, KeyOf(r.ID, n))]

\* the output "21-a" was saved under result 21 and then under result 22, and
\* each result lists it under that name
C22_Witness ==
  /\ ops = 2
  /\ last.op = "SaveOutput" /\ last.err = Nil
  /\ last.arg.Name = PrefixedName /\ last.arg.result.ID = <<50, 50>>
  /\ PrefixedName \in NamesUnder(<<50, 49>>)
  /\ \E i \in DOMAIN ListOutputs(store, <<50, 49>>).val :
       ListOutputs(store, <<50, 49>>).val[i] = PrefixedName
  /\ ListOutputs(store, <<50, 50>>).val = <<PrefixedName>>

----------------------------------------------------------------------------
(* The functions that touch no store.  A history here is one call: the     *)
(* initial state holds the arguments, the step applies the function and    *)
(* records what it returned.                                               *)

NoStore ==
  /\ emptyGroupIsError = FALSE /\ listReversed = FALSE /\ crypto = "noop"
  /\ store = EmptyStore
  /\ recording = TRUE
  /\ ops = 0
  /\ pc = << >> /\ call = << >> /\ held = << >> /\ local = << >> /\ calls = << >>
  /\ inst0 = << >>
  /\ driver = << >>

Calls(fn, a) == last = [op |-> "call", arg |-> [fn |-> fn, a |-> a], err |-> Nil]

Returns(fn, res) ==
  /\ last' = [op |-> fn, arg |-> last.arg.a, err |-> res.err, val |-> res.val]
  /\ ops' = ops + 1
  /\ UNCHANGED <<store, backing, recording, concVars>>

\* names: foo, my-app_1, A, the empty name, "m m", a.b, a/b, and one with a
\* letter outside ASCII
NewNames ==
  {Foo, <<109, 121, 45, 97, 112, 112, 95, 49>>, <<65>>, << >>, <<109, 32, 109>>,
   <<97, 46, 98>>, <<97, 47, 98>>, <<99, 97, 102, 233>>}

NoLabelsBundle ==
  [Version |-> "", Outputs |-> {}, Sensitive |-> {}, Modifies |-> {}, Labels |-> EmptyMap]

NewInstallationArgs ==
  [namespace : {NamespaceGlobal, <<109, 121, 110, 115>>},
   name : NewNames,
   bundle : {Bundle1, Bundle2, NoLabelsBundle},
   bundleRef : {"", "me/mybun:v0.1.0", "invalid reference"},
   bundleDigest : {"", "sha256:abc123"},
   now : {Time0, Time0 + 1}]

\* the results of the tests of GetLastResult, with IDs "1", "10" and "2"
LoadedResults ==
  {[ID |-> <<49>>, Status |-> StatusSucceeded], [ID |-> <<49, 48>>, Status |-> StatusRunning],
   [ID |-> <<50>>, Status |-> StatusFailed]}

\* the sequences that hold each element of S at most once
Arrangements(S) ==
  UNION {{s \in [1..n -> S] : \A j, k \in 1..n : j # k => s[j] # s[k]} :
           n \in 0..Cardinality(S)}

\* what Claim.results can be: nil, or a pointer to results in some order
ResultsPointers == {<< >>} \cup {<<rs>> : rs \in Arrangements(LoadedResults)}

\* the claims handed to LoadClaims: none, or the install with ID "1" and
\* the upgrade with ID "2" in some order, each with its results
LoadClaimsArgs ==
  LET install == [ID |-> <<49>>, Action |-> ActionInstall]
      upgrade == [ID |-> <<50>>, Action |-> ActionUpgrade]
  IN UNION {{[k \in DOMAIN cs |-> LoadedClaim(cs[k], rs[k])] : rs \in [DOMAIN cs -> ResultsPointers]} :
              cs \in Arrangements({install, upgrade})}

\* "cnab.io/"
cnabPrefix == <<99, 110, 97, 98, 46, 105, 111, 47>>

\* "cnab.io/installation", "cnab.io/action", "cnab.io/revision"
AnnotationInstallation == cnabPrefix \o <<105, 110, 115, 116, 97, 108, 108, 97, 116, 105, 111, 110>>
AnnotationAction == cnabPrefix \o <<97, 99, 116, 105, 111, 110>>
AnnotationRevision == cnabPrefix \o <<114, 101, 118, 105, 115, 105, 111, 110>>

\* generateMergedAnnotations that copies every annotation of the user
generateMergedAnnotations_CopiesAll(op, mergeWith) ==
  LET anno == [k \in {AnnotationInstallation, AnnotationAction, AnnotationRevision} |->
                 IF k = AnnotationInstallation THEN op.Installation
                 ELSE IF k = AnnotationAction THEN op.Action ELSE op.Revision]
  IN [k \in (DOMAIN anno) \cup (DOMAIN mergeWith) |->
        IF k \in DOMAIN mergeWith THEN mergeWith[k] ELSE anno[k]]

\* generateMergedAnnotations: the keys of mergeWith are distinct, so the
\* order in which range visits them does not show in the result
generateMergedAnnotations(op, mergeWith) ==
  LET anno == [k \in {AnnotationInstallation, AnnotationAction, AnnotationRevision} |->
                 IF k = AnnotationInstallation THEN op.Installation
                 ELSE IF k = AnnotationAction THEN op.Action ELSE op.Revision]
      applied == {k \in DOMAIN mergeWith : ~HasPrefix(k, cnabPrefix)}
  IN [k \in (DOMAIN anno) \cup applied |-> IF k \in applied THEN mergeWith[k] ELSE anno[k]]

\* keys of the user: env, cnab.io/installation, cnab.io/x, cnab.io (no
\* slash), CNAB.io/x, xcnab.io/, the empty key and cnab.io/ itself
UserKeys ==
  {<<101, 110, 118>>, AnnotationInstallation, cnabPrefix \o <<120>>,
   <<99, 110, 97, 98, 46, 105, 111>>, <<67, 78, 65, 66, 46, 105, 111, 47, 120>>,
   <<120>> \o cnabPrefix, << >>, cnabPrefix}

generateMergedAnnotationsArgs ==
  [op : [Installation : {"foo", ""}, Action : {ActionInstall, ActionUpgrade},
         Revision : {"rev1"}],
   mergeWith : UNION {{[k \in keys |-> v] : v \in {"mine", ""}} : keys \in SUBSET UserKeys}]

\* the installations ApplyClaim is applied to: foo as NewInstallation made
\* it, with no labels or with labels of its own, and with the repository of
\* an earlier claim or none
ApplyClaimInstallations ==
  {[NewInstallation(NamespaceGlobal, Foo, Bundle1, "", "", Time0).val
      EXCEPT !.Labels = labels, !.BundleRepository = repo, !.Modified = Time0 + 1] :
     labels \in {EmptyMap, [k \in {"env"} |-> "test"],
                 [k \in {"env", "team"} |-> IF k = "env" THEN "test" ELSE "red"]},
     repo \in {"", "other/bun"}}

\* the claims applied: the install of foo with the bundle, the reference and
\* the digest varied
ApplyClaimArgs ==
  [i : ApplyClaimInstallations,
   c : {[Claim1 EXCEPT !.Bundle = b, !.BundleReference = ref, !.BundleDigest = digest] :
          b \in {Bundle1, Bundle2, NoLabelsBundle},
          ref \in {"", "me/mybun:v0.1.0", "invalid reference"},
          digest \in {"", "sha256:def456"}}]

\* the lists handed to NewOutputs: outputs named a, b, ab and B, any
\* selection of them in any order
NewOutputsArgs ==
  {[k \in DOMAIN names |-> NewOutput(Claim2, Result21, names[k], [raw |-> "v1"])] :
     names \in Arrangements({<<97>>, <<98>>, <<97, 98>>, <<66>>})}

InitPure ==
  /\ NoStore
  /\ \/ \E a \in NewInstallationArgs : Calls("NewInstallation", a)
     \/ \E claims \in LoadClaimsArgs : Calls("LoadClaims", [claims |-> claims])
     \/ \E a \in generateMergedAnnotationsArgs : Calls("generateMergedAnnotations", a)
     \/ \E a \in ApplyClaimArgs : Calls("ApplyClaim", a)
     \/ \E outputs \in NewOutputsArgs : Calls("NewOutputs", [outputs |-> outputs])

DoNewInstallation ==
  /\ last.op = "call" /\ last.arg.fn = "NewInstallation"
  /\ LET a == last.arg.a IN
     Returns("NewInstallation",
             NewInstallation(a.namespace, a.name, a.bundle, a.bundleRef, a.bundleDigest, a.now))

\* i := &Installation{Name: "wordpress"}; i.LoadClaims(claims)
DoLoadClaims ==
  /\ last.op = "call" /\ last.arg.fn = "LoadClaims"
  /\ Returns("LoadClaims",
             [err |-> Nil, val |-> LoadClaims([Name |-> "wordpress"], last.arg.a.claims)])

DoGenerateMergedAnnotations ==
  /\ last.op = "call" /\ last.arg.fn = "generateMergedAnnotations"
  /\ Returns("generateMergedAnnotations",
             [err |-> Nil,
              val |-> generateMergedAnnotations(last.arg.a.op, last.arg.a.mergeWith)])

\* i = i.ApplyClaim(c): the method returns the installation and no error
DoApplyClaim ==
  /\ last.op = "call" /\ last.arg.fn = "ApplyClaim"
  /\ Returns("ApplyClaim", [err |-> Nil, val |-> ApplyClaim(last.arg.a.i, last.arg.a.c)])

DoNewOutputs ==
  /\ last.op = "call" /\ last.arg.fn = "NewOutputs"
  /\ Returns("NewOutputs", [err |-> Nil, val |-> NewOutputs(last.arg.a.outputs)])

NextPure ==
  \/ DoNewInstallation
  \/ DoLoadClaims
  \/ DoGenerateMergedAnnotations
  \/ DoApplyClaim
  \/ DoNewOutputs

SpecPure == InitPure /\ [][NextPure]_vars

\* the character is one of a-z, A-Z, 0-9, _ and -
NameCharacter(ch) ==
  \/ ch >= 97 /\ ch <= 122
  \/ ch >= 65 /\ ch <= 90
  \/ ch >= 48 /\ ch <= 57
  \/ ch = 95 \/ ch = 45

WellNamed(name) == name # << >> /\ \A k \in 1..Len(name) : NameCharacter(name[k])

\* C23: whenever NewInstallation has returned, it has returned an error and no
\* installation if the name does not consist of one or more of the characters
\* a-z, A-Z, 0-9, _ and -, and it has not returned the error of the name check
\* if the name does.
C23_NameCheck ==
  last.op = "NewInstallation" =>
    IF WellNamed(last.arg.name)
    THEN last.err # ErrInvalidName
    ELSE last.err = ErrInvalidName /\ last.val = Nil

\* NewInstallation has rejected the name with a blank in it, whatever the
\* other arguments
C23_Witness ==
  /\ last.op = "NewInstallation"
  /\ last.arg.name = <<109, 32, 109>> /\ last.arg.bundleRef = "me/mybun:v0.1.0"
  /\ last.err = ErrInvalidName /\ last.val = Nil

\* C24: whenever NewInstallation has returned without error, the installation
\* it returned has the Labels of the bundle, key by key, the Version of the
\* bundle as its BundleVersion, the digest as its BundleDigest, and Modified
\* equal to Created.
C24_NewInstallationFields ==
  (last.op = "NewInstallation" /\ last.err = Nil) =>
    /\ DOMAIN last.val.Labels = DOMAIN last.arg.bundle.Labels
    /\ \A k \in DOMAIN last.arg.bundle.Labels : last.val.Labels[k] = last.arg.bundle.Labels[k]
    /\ last.val.BundleVersion = last.arg.bundle.Version
    /\ last.val.BundleDigest = last.arg.bundleDigest
    /\ last.val.Modified = last.val.Created

----------------------------------------------------------------------------
(* The status views. *)

\* C25: in every state where ListInstallations("") returns names without
\* error, ReadAllInstallationStatus returns without error one installation
\* for each of these names, in the same ascending order.
C25_OneEntryPerInstallation ==
  LET names == ListInstallations(store, EmptyString)
      installations == ReadAllInstallationStatus(store) IN
  names.err = Nil =>
    /\ installations.err = Nil
    /\ FieldSeq(installations.val, "Name") = names.val

\* the stored claim, as ReadClaim returns it
StoredClaim(id) == PlainOf(store[ItemTypeClaims][id].data).json

\* C26: in every state, ReadInstallationStatus(name) returns "Installation
\* does not exist" when no claim is stored for name; otherwise it returns an
\* installation of that name whose GetLastClaim is the stored claim of the
\* greatest ID and whose GetLastStatus is the Status of the stored result of
\* the greatest ID of that claim, or "unknown" when no result is stored for
\* that claim.
C26_StatusView ==
  \A name \in InstallationNames :
    LET i == ReadInstallationStatus(store, name) IN
    IF StoredClaims(name) = {} THEN i.err = ErrInstallationNotFound
    ELSE /\ i.err = Nil
         /\ i.val.Name = name
         /\ GetLastClaim(i.val).err = Nil
         /\ LET lastClaim == GetLastClaim(i.val).val.claim IN
            /\ Greatest(lastClaim.ID, StoredClaims(name))
            /\ lastClaim = StoredClaim(lastClaim.ID)
            /\ IF StoredResults(lastClaim.ID) = {}
               THEN GetLastStatus(i.val) = StatusUnknown
               ELSE \E id \in StoredResults(lastClaim.ID) :
                      /\ Greatest(id, StoredResults(lastClaim.ID))
                      /\ GetLastStatus(i.val) = store[ItemTypeResults][id].data.json.Status

\* the later claim of foo has two results saved in the course of the
\* history, the earlier one succeeded and the later one still running, and
\* the status view shows the later claim as running; bar has no claim
C26_Witness ==
  /\ ops = 2
  /\ StoredClaims(Foo) = {Claim1.ID, Claim2.ID}
  /\ StoredResults(Claim2.ID) = {<<50, 49>>, <<50, 50>>}
  /\ store[ItemTypeResults][<<50, 49>>].data.json.Status = StatusSucceeded
  /\ GetLastClaim(ReadInstallationStatus(store, Foo).val).val.claim.ID = Claim2.ID
  /\ GetLastStatus(ReadInstallationStatus(store, Foo).val) = StatusRunning
  /\ ReadInstallationStatus(store, Bar).err = ErrInstallationNotFound

\* the record of the greatest ID among the records of the sequence
GreatestOf(records, r) ==
  /\ \E k \in DOMAIN records : records[k] = r
  /\ \A k \in DOMAIN records : records[k].ID = r.ID \/ StrLess(records[k].ID, r.ID)

\* C27: whenever LoadClaims(claims) has returned, whatever the order of the
\* claims and of the results of each claim, GetLastClaim returns the claim of
\* the greatest ID, GetLastResult the result of the greatest ID of that claim
\* and GetLastStatus the Status of that result; GetLastStatus returns
\* "unknown" when there are no claims, when the results of the last claim are
\* not loaded and when the last claim has no results.
C27_LoadedView ==
  last.op = "LoadClaims" =>
    LET i == last.val
        given == last.arg.claims IN
    IF given = << >>
    THEN GetLastClaim(i).err = ErrNoClaims /\ GetLastStatus(i) = StatusUnknown
    ELSE /\ GetLastClaim(i).err = Nil
         /\ \E k \in DOMAIN given :
              /\ GreatestOf([j \in DOMAIN given |-> given[j].claim], given[k].claim)
              /\ GetLastClaim(i).val.claim = given[k].claim
              /\ IF given[k].results = << >>
                 THEN /\ GetLastResult(i).err = ErrResultsNotLoaded
                      /\ GetLastStatus(i) = StatusUnknown
                 ELSE IF given[k].results[1] = << >>
                 THEN /\ GetLastResult(i).err = ErrLastClaimNoResults
                      /\ GetLastStatus(i) = StatusUnknown
                 ELSE /\ GetLastResult(i).err = Nil
                      /\ GreatestOf(given[k].results[1], GetLastResult(i).val)
                      /\ GetLastStatus(i) = GetLastResult(i).val.Status

\* the upgrade was given before the install, with the failed result "2"
\* before the results "10" and "1", and the view shows the upgrade as failed
C27_Witness ==
  /\ last.op = "LoadClaims"
  /\ Len(last.arg.claims) = 2
  /\ last.arg.claims[1].claim.ID = <<50>> /\ last.arg.claims[2].results = << >>
  /\ last.arg.claims[1].results # << >>
  /\ Len(last.arg.claims[1].results[1]) = 3
  /\ last.arg.claims[1].results[1][1].ID = <<50>>
  /\ last.arg.claims[1].results[1][2].ID = <<49, 48>>
  /\ GetLastClaim(last.val).val.claim.Action = ActionUpgrade
  /\ GetLastStatus(last.val) = StatusFailed

\* the key starts with the eight characters of "cnab.io/"
Reserved(k) ==
  Len(k) >= 8 /\ SubSeq(k, 1, 8) = <<99, 110, 97, 98, 46, 105, 111, 47>>

\* C28: whenever generateMergedAnnotations has returned, the annotations hold
\* cnab.io/installation, cnab.io/action and cnab.io/revision with the
\* Installation, Action and Revision of the operation, no other key that
\* starts with "cnab.io/", and every annotation of the user whose key does
\* not start with "cnab.io/", with the value of the user, and nothing else.
C28_ReservedAnnotations ==
  last.op = "generateMergedAnnotations" =>
    LET anno == last.val
        op == last.arg.op
        mergeWith == last.arg.mergeWith IN
    /\ anno[AnnotationInstallation] = op.Installation
    /\ anno[AnnotationAction] = op.Action
    /\ anno[AnnotationRevision] = op.Revision
    /\ \A k \in DOMAIN anno :
         IF Reserved(k)
         THEN k \in {AnnotationInstallation, AnnotationAction, AnnotationRevision}
         ELSE k \in DOMAIN mergeWith /\ anno[k] = mergeWith[k]
    /\ \A k \in DOMAIN mergeWith : ~Reserved(k) => k \in DOMAIN anno

\* the user gave cnab.io/installation, cnab.io/x, cnab.io/ and env: the
\* first three are dropped, env is copied
C28_Witness ==
  /\ last.op = "generateMergedAnnotations"
  /\ DOMAIN last.arg.mergeWith =
       {AnnotationInstallation, cnabPrefix \o <<120>>, cnabPrefix, <<101, 110, 118>>}
  /\ last.arg.mergeWith[AnnotationInstallation] = "mine"
  /\ last.arg.op.Installation = "foo"
  /\ last.val[AnnotationInstallation] = "foo"
  /\ last.val[<<101, 110, 118>>] = "mine"
  /\ Cardinality(DOMAIN last.val) = 4

----------------------------------------------------------------------------
(* The status between a claim and its first result. *)

\* the installation is stored and shows no result: GetStatus is "unknown"
ShowsNoResult(st, name) ==
  LET i == ReadInstallation(st, NamespaceGlobal, name) IN
  /\ i.err = Nil
  /\ i.val.Status.ResultID = EmptyString /\ i.val.Status.ResultStatus = ""
  /\ GetStatus(i.val) = StatusUnknown

\* the step is a SaveResult, returning nil, of a result that has a claim of a
\* modifying action of the installation attached
ResultArrives(name) ==
  /\ last'.op = "SaveResult" /\ last'.err = Nil
  /\ last'.arg.claim # NilClaim
  /\ IsModifyingAction(last'.arg.claim[1]) /\ last'.arg.claim[1].Installation = name

\* C29: a step SaveClaim(c) that returns nil for a claim of a modifying action
\* leaves the installation of c with an empty Status.ResultID and
\* Status.ResultStatus and GetStatus "unknown", whatever the status was; and
\* an installation that shows no result keeps showing none, for as long as it
\* is stored, through every step that is not a SaveResult, returning nil, of
\* a result with a claim of a modifying action of that installation attached.
C29_UnknownUntilResult ==
  [][ops' = ops + 1 =>
       /\ (last'.op = "SaveClaim" /\ last'.err = Nil /\ IsModifyingAction(last'.arg)) =>
            ShowsNoResult(store', last'.arg.Installation)
       /\ \A name \in InstallationNames :
            (/\ ShowsNoResult(store, name)
             /\ ~ResultArrives(name)
             /\ ReadInstallation(store', NamespaceGlobal, name).err = Nil) =>
              ShowsNoResult(store', name)]_vars

\* foo showed the upgrade as succeeded, then the install claim was saved
\* again, then a result without its claim attached: foo shows "unknown"
\* although the succeeded result of the upgrade and the new result are stored
C29_Witness ==
  /\ ops = 2
  /\ last.op = "SaveResult" /\ last.err = Nil /\ last.arg.claim = NilClaim
  /\ last.arg.ClaimID = Claim1.ID
  /\ Result21.ID \in DOMAIN store[ItemTypeResults]
  /\ store[ItemTypeResults][Result21.ID].data.json.Status = StatusSucceeded
  /\ ShowsNoResult(store, Foo)
  /\ InstallationOf(Foo).val.Status.ClaimID = Claim1.ID

(* The connection on every exit path of a scoped method. *)

\* how often a request of the kind op occurs among the first n of a trace
CountOf(trace, n, op) == Cardinality({j \in 1..n : trace[j].op = op})

\* every HandleConnect of the trace is followed by one release of its own:
\* no release comes before its HandleConnect, and none is left out
ReleasedOnce(trace) ==
  /\ \A n \in 0..Len(trace) :
       CountOf(trace, n, "release") <= CountOf(trace, n, "HandleConnect")
  /\ CountOf(trace, Len(trace), "release") = CountOf(trace, Len(trace), "HandleConnect")
  /\ trace # << >> /\ trace[1].op = "HandleConnect" /\ trace[Len(trace)].op = "release"

\* C30: in every state, on a backing store that fails its connect or one
\* kind of its calls, every method that opens with HandleConnect releases
\* what it acquired exactly once, whether it returns nil, the error of a
\* backing-store call or a not-found error, and leaves nobody holding the
\* connection; when HandleConnect itself fails the method returns that
\* error, issues no Read, ReadAll, List, Save or Delete, and the release it
\* runs closes nothing; otherwise the backing store connects once and closes
\* once.
C30_ReleasedOnEveryPath ==
  \A k \in DOMAIN PublicRequests : \A q \in PublicRequests[k] :
    q.op \in HandleConnectScoped =>
      LET t == Trace(store, q)
          c == Observed(store, q)
      IN /\ ReleasedOnce(t)
         /\ c.holders = 0
         /\ IF ConnectFails(store)
            THEN /\ Invoke(store, q).err = ErrConnectFailure
                 /\ Invoke(store, q).st = store
                 /\ \A j \in DOMAIN t : t[j].op \notin BackingCalls
                 /\ c.connects = 0 /\ c.closes = 0
            ELSE c.connects = 1 /\ c.closes = 1

\* SaveClaim was called on a backing store whose connect fails and returned
\* the error of HandleConnect; ReadLastClaim of foo would do the same
C30_Witness ==
  /\ ConnectFails(store)
  /\ last.op = "SaveClaim" /\ last.err = ErrConnectFailure
  /\ ReadLastClaim(store, Foo).err = ErrConnectFailure
  /\ Trace(store, Req("ReadLastClaim", <<Foo>>)) = <<HandleConnect(store), release(store)>>

----------------------------------------------------------------------------

(* ApplyClaim and the reference of the bundle. *)

\* a store that holds the installation and nothing else
StoreOf(i) == SaveInstallation(EmptyStore, i).st

\* ApplyClaim was applied to a claim whose reference is not empty and does
\* not parse
UnparsedReference ==
  /\ last.op = "ApplyClaim"
  /\ last.arg.c.BundleReference # ""
  /\ ParseNormalizedNamed(last.arg.c.BundleReference).err # Nil

\* C31: whenever ApplyClaim has returned for a claim whose non-empty
\* BundleReference does not parse as an OCI reference, it has failed with the
\* invalid-bundle-reference error, and so does SaveClaim of that claim on a
\* store that holds the installation.
C31_InvalidReferenceFails ==
  UnparsedReference =>
    /\ last.err = ErrInvalidReference
    /\ SaveClaim(StoreOf(last.arg.i), last.arg.c).err = ErrInvalidReference

----------------------------------------------------------------------------

(* ApplyClaim and the labels of the bundle. *)

\* C32: whenever ApplyClaim has returned, every label of the bundle of the
\* claim is a label of the installation returned, with the value of the
\* claim; every label the installation had that the bundle does not have
\* keeps its value; and BundleVersion and BundleDigest are those of the
\* claim.
C32_LabelsMerged ==
  last.op = "ApplyClaim" =>
    LET i == last.arg.i
        c == last.arg.c
        applied == last.val
    IN /\ \A k \in DOMAIN c.Bundle.Labels :
            k \in DOMAIN applied.Labels /\ applied.Labels[k] = c.Bundle.Labels[k]
       /\ \A k \in (DOMAIN i.Labels) \ (DOMAIN c.Bundle.Labels) :
            k \in DOMAIN applied.Labels /\ applied.Labels[k] = i.Labels[k]
       /\ applied.BundleVersion = c.Bundle.Version
       /\ applied.BundleDigest = c.BundleDigest

\* foo had env=test and team=red and the claim brought env=prod and
\* app=myapp: the claim won env, team was kept, app was added
C32_Witness ==
  /\ last.op = "ApplyClaim"
  /\ last.arg.i.Labels = [k \in {"env", "team"} |-> IF k = "env" THEN "test" ELSE "red"]
  /\ last.arg.c.Bundle = Bundle2
  /\ last.arg.c.BundleDigest = "sha256:def456"
  /\ DOMAIN last.val.Labels = {"env", "team", "app"}
  /\ last.val.Labels["env"] = "prod" /\ last.val.Labels["team"] = "red"
  /\ last.val.Labels["app"] = "myapp"
  /\ last.val.BundleVersion = "0.2.0" /\ last.val.BundleDigest = "sha256:def456"

----------------------------------------------------------------------------

(* What SaveClaim and SaveResult leave alone in an installation. *)

InstallationRecords(st) == {st[ItemTypeInstallations][key].data.json :
                              key \in DOMAIN st[ItemTypeInstallations]}

\* the fields of an installation that no claim and no result writes
Identity(i) ==
  [Name |-> i.Name, Namespace |-> i.Namespace, SchemaVersion |-> i.SchemaVersion,
   Custom |-> i.Custom, Created |-> i.Created, Modified |-> i.Modified]

\* C33: a step of SaveClaim or SaveResult, whatever it returns, leaves every
\* installation record stored, under its key, with the Name, Namespace,
\* SchemaVersion, Custom, Created and Modified it had; and after the step
\* Created <= Modified holds for every installation stored.
C33_IdentityKept ==
  [][(ops' = ops + 1 /\ last'.op \in {"SaveClaim", "SaveResult"}) =>
       /\ \A key \in DOMAIN store[ItemTypeInstallations] :
            /\ key \in DOMAIN store'[ItemTypeInstallations]
            /\ Identity(store'[ItemTypeInstallations][key].data.json)
                 = Identity(store[ItemTypeInstallations][key].data.json)
       /\ \A i \in InstallationRecords(store') : i.Created <= i.Modified]_vars

\* a result of the upgrade of foo was saved with its claim attached and the
\* status of foo shows it, while foo has the Created and Modified that
\* NewInstallation gave it
C33_Witness ==
  /\ ops > 0
  /\ last.op = "SaveResult" /\ last.err = Nil /\ last.arg.claim = <<Claim2>>
  /\ InstallationOf(Foo).err = Nil
  /\ InstallationOf(Foo).val.Status.ResultID = last.arg.ID
  /\ Identity(InstallationOf(Foo).val)
       = Identity(NewInstallation(NamespaceGlobal, Foo, Bundle1, "", "", Time0).val)

----------------------------------------------------------------------------

(* The order of a cascading delete. *)

\* the store after the first n requests of a trace have reached the backing
\* store
RECURSIVE After(_, _, _)
After(st, trace, n) ==
  IF n = 0 THEN st
  ELSE CHOOSE next \in {IF trace[n].op = "Delete"
                        THEN BackingDelete(prev, trace[n].a[1], trace[n].a[2]).st
                        ELSE prev : prev \in {After(st, trace, n - 1)}} : TRUE

\* every stored output has the record of its result and every stored result
\* the record of its claim
NoOrphans(st) ==
  /\ \A key \in DOMAIN st[ItemTypeOutputs] :
       st[ItemTypeOutputs][key].group \in DOMAIN st[ItemTypeResults]
  /\ \A key \in DOMAIN st[ItemTypeResults] :
       st[ItemTypeResults][key].group \in DOMAIN st[ItemTypeClaims]

\* the item type of the records below those of an item type
ChildType(itemType) ==
  CASE itemType = ItemTypeInstallations -> ItemTypeClaims
    [] itemType = ItemTypeClaims -> ItemTypeResults
    [] itemType = ItemTypeResults -> ItemTypeOutputs
    [] OTHER -> ""

\* the request deletes a record that st holds below the record the request
\* parent deletes
DeletesChildOf(st, child, parent) ==
  /\ child.op = "Delete" /\ parent.op = "Delete"
  /\ child.a[1] = ChildType(parent.a[1])
  /\ child.a[2] \in DOMAIN st[child.a[1]]
  /\ st[child.a[1]][child.a[2]].group = parent.a[2]

ChildrenFirst(st, trace) ==
  \A j, k \in DOMAIN trace : DeletesChildOf(st, trace[k], trace[j]) => k < j

CascadingDeletes ==
  {q \in PublicRequests[1] : q.op \in {"DeleteInstallation", "DeleteClaim", "DeleteResult"}}

DeletesOf(trace) == SelectSeq(trace, LAMBDA q : q.op = "Delete")

\* C34: in every state, for every DeleteInstallation, DeleteClaim and
\* DeleteResult a caller can issue, the Deletes that reach the backing store
\* come children first: no record is deleted after the record above it (the
\* outputs of a result before the result, the results of a claim before the
\* claim, the claims of an installation before the installation); what the
\* Deletes leave is the store the operation returns; and when every stored
\* output has its result and every stored result its claim before the
\* operation, the same holds after each of its requests.
C34_ChildrenFirst ==
  \A q \in CascadingDeletes :
    LET t == Trace(store, q) IN
    /\ ChildrenFirst(store, t)
    /\ After(store, t, Len(t)) = Invoke(store, q).st
    /\ NoOrphans(store) => \A n \in 0..Len(t) : NoOrphans(After(store, t, n))

\* foo is stored with its two claims, the result of the upgrade and the two
\* outputs of that result, and DeleteInstallation("foo") deletes the
\* outputs, the result, the claims and then foo
C34_Witness ==
  /\ NoOrphans(store)
  /\ DeletesOf(Trace(store, Req("DeleteInstallation", <<Foo>>)))
       = << Req("Delete", <<ItemTypeClaims, Claim1.ID>>),
            Req("Delete", <<ItemTypeOutputs, outputKey(Result21.ID, Output1)>>),
            Req("Delete", <<ItemTypeOutputs, outputKey(Result21.ID, Output2)>>),
            Req("Delete", <<ItemTypeResults, Result21.ID>>),
            Req("Delete", <<ItemTypeClaims, Claim2.ID>>),
            Req("Delete", <<ItemTypeInstallations, Foo>>) >>
  /\ DeleteInstallation(store, Foo).err = Nil

----------------------------------------------------------------------------

(* A backing store that fails in the course of DeleteInstallation. *)

FailingCalls(st, trace) ==
  {j \in DOMAIN trace : trace[j].op \in BackingCalls /\ Fails(st, trace[j].op, trace[j].a[1])}

\* the first request of the trace that the backing store fails
FirstFailure(st, trace) ==
  CHOOSE j \in FailingCalls(st, trace) : \A k \in FailingCalls(st, trace) : j <= k

\* what was deleted before the failure stays deleted, nothing is deleted
\* after it, and the record of the installation is still there
RemainderKept(st, name) ==
  LET t == Trace(st, Req("DeleteInstallation", <<name>>))
      returned == DeleteInstallation(st, name)
      failure == FirstFailure(st, t)
  IN /\ returned.st = After(st, t, failure - 1)
     /\ \A j \in 1..(failure - 1) :
          (t[j].op = "Delete" /\ t[j].a[2] \in DOMAIN st[t[j].a[1]]) =>
            t[j].a[2] \notin DOMAIN returned.st[t[j].a[1]]
     /\ \A j \in (failure + 1)..Len(t) : t[j].op \notin BackingCalls
     /\ name \in DOMAIN st[ItemTypeInstallations] =>
          /\ name \in DOMAIN returned.st[ItemTypeInstallations]
          /\ returned.st[ItemTypeInstallations][name] = st[ItemTypeInstallations][name]

\* C35: in every state, when a List or a Delete of the backing store fails
\* in the course of DeleteInstallation(name), DeleteInstallation returns that
\* failure, the records deleted before it stay deleted, no record is deleted
\* after it, and the record of the installation is still present.
C35_FailureLeavesRemainder ==
  \A name \in InstallationNames :
    HitsFailure(store, Req("DeleteInstallation", <<name>>)) =>
      /\ DeleteInstallation(store, name).err = FailureOf(store)
      /\ RemainderKept(store, name)

----------------------------------------------------------------------------

(* The Outputs container. *)

\* the position kept for the name of every output is the position of that
\* output
KeysMatchVals(o) ==
  /\ DOMAIN o.keys = {o.vals[i].Name : i \in DOMAIN o.vals}
  /\ \A i \in DOMAIN o.vals : o.keys[o.vals[i].Name] = i

\* the containers the sort of NewOutputs passes through, from the container
\* o at the point where the output at position i is sunk from position j
RECURSIVE SortPasses(_, _, _)
SortPasses(o, i, j) ==
  IF i > Len(o.vals) THEN {o}
  ELSE IF j > 1 /\ OutputsLess(o, j, j - 1)
  THEN {o} \cup SortPasses(OutputsSwap(o, j, j - 1), i, j - 1)
  ELSE {o} \cup SortPasses(o, i + 1, i + 1)

\* C36: whenever NewOutputs has returned for a list of outputs with pairwise
\* distinct names, the container holds the outputs of the list, GetByIndex
\* over its positions gives them in ascending order of their names,
\* GetByName(n) gives the output named n for every name of the list, the
\* positions kept for the names match the outputs before the sort, after
\* each Swap of the sort and in the container returned, and GetByName of a
\* name not in the list and GetByIndex of a position out of range return
\* false.
C36_SortedAndIndexed ==
  last.op = "NewOutputs" =>
    LET outputs == last.arg.outputs
        o == last.val
        n == Len(outputs)
    IN /\ Len(o.vals) = n
       /\ {o.vals[i] : i \in 1..n} = {outputs[i] : i \in 1..n}
       /\ \A i \in 1..n : GetByIndex(o, i) = [ok |-> TRUE, val |-> o.vals[i]]
       /\ \A i \in 1..(n - 1) : StrLess(GetByIndex(o, i).val.Name, GetByIndex(o, i + 1).val.Name)
       /\ \A i \in 1..n :
            GetByName(o, outputs[i].Name) = [ok |-> TRUE, val |-> outputs[i]]
       /\ \A passed \in SortPasses([vals |-> outputs, keys |-> OutputKeys(outputs)], 2, 2) :
            KeysMatchVals(passed)
       /\ o \in SortPasses([vals |-> outputs, keys |-> OutputKeys(outputs)], 2, 2)
       /\ \A name \in {<<99>>, << >>, <<65>>} \cup ({<<97>>, <<98>>} \ DOMAIN o.keys) :
            ~GetByName(o, name).ok
       /\ ~GetByIndex(o, 0).ok /\ ~GetByIndex(o, n + 1).ok /\ ~GetByIndex(o, 0 - 1).ok

\* NewOutputs was given b, ab, a and B in this order and returned B, a, ab, b
C36_Witness ==
  /\ last.op = "NewOutputs"
  /\ [k \in DOMAIN last.arg.outputs |-> last.arg.outputs[k].Name]
       = << <<98>>, <<97, 98>>, <<97>>, <<66>> >>
  /\ [k \in DOMAIN last.val.vals |-> last.val.vals[k].Name]
       = << <<66>>, <<97>>, <<97, 98>>, <<98>> >>
  /\ GetByName(last.val, <<97>>).ok /\ GetByName(last.val, <<97>>).val.Name = <<97>>
  /\ last.val.keys[<<98>>] = 4

----------------------------------------------------------------------------

(* SaveClaim for an installation that is not stored. *)

\* no claim of the installation stored in st has an ID after that of c
LastOfInstallation(st, c) ==
  \A id \in DOMAIN st[ItemTypeClaims] :
    st[ItemTypeClaims][id].group = c.Installation => ~StrLess(c.ID, id)

\* C37: a step SaveClaim(c) for a claim of a modifying action whose
\* installation cannot be read before the step returns 'Installation does
\* not exist' and leaves the installation records as they were, none added;
\* after the step ReadClaim(c.ID) returns c, and ReadLastClaim of the
\* installation returns c when no stored claim of the installation has a
\* later ID.
C37_ClaimWithoutInstallation ==
  [][(/\ ops' = ops + 1
      /\ last'.op = "SaveClaim" /\ IsModifyingAction(last'.arg)
      /\ ReadInstallation(store, NamespaceGlobal, last'.arg.Installation).err # Nil) =>
       /\ last'.err = ErrInstallationNotFound
       /\ store'[ItemTypeInstallations] = store[ItemTypeInstallations]
       /\ ReadClaim(store', last'.arg.ID).err = Nil
       /\ ReadClaim(store', last'.arg.ID).val = last'.arg
       /\ LastOfInstallation(store', last'.arg) =>
            /\ ReadLastClaim(store', last'.arg.Installation).err = Nil
            /\ ReadLastClaim(store', last'.arg.Installation).val = last'.arg]_vars

\* the install of foo was saved to a store without foo: the call returned
\* 'Installation does not exist', foo is not stored, the claim is, and it is
\* the last claim of foo
C37_Witness ==
  /\ last.op = "SaveClaim" /\ last.arg = Claim1 /\ last.err = ErrInstallationNotFound
  /\ Foo \notin DOMAIN store[ItemTypeInstallations]
  /\ ReadClaim(store, Claim1.ID) = [err |-> Nil, val |-> Claim1]
  /\ ReadLastClaim(store, Foo) = [err |-> Nil, val |-> Claim1]

----------------------------------------------------------------------------

(* Installations of one name in two namespaces. *)

\* "myns"
MyNamespace == <<109, 121, 110, 115>>

\* foo of the namespace myns, stored under the key "myns/foo"
NamespacedFoo == NewInstallation(MyNamespace, Foo, Bundle2, "", "", Time0 + 1).val

\* the histories on a store that holds foo of myns besides what the global
\* namespace holds
InitNamespaced ==
  /\ emptyGroupIsError \in BOOLEAN /\ listReversed = FALSE /\ crypto = "noop"
  /\ \E k \in SeedPoints : store = SaveInstallation(Replay(k), NamespacedFoo).st
  /\ last = [op |-> "NewClaimStore", arg |-> << >>, err |-> Nil]
  /\ recording = TRUE
  /\ ops = 0
  /\ pc = << >> /\ call = << >> /\ held = << >> /\ local = << >> /\ calls = << >>
  /\ inst0 = << >>
  /\ driver = << >>

SpecNamespaced == InitNamespaced /\ [][Next]_vars

\* the names of the installations an operation is about: that of the claim,
\* that of the claim attached to the result, the name handed in
NamesOf(op, arg) ==
  CASE op = "SaveClaim" -> {arg.Installation}
    [] op = "SaveResult" -> IF arg.claim = NilClaim THEN {} ELSE {arg.claim[1].Installation}
    [] op = "DeleteInstallation" -> {arg}
    [] OTHER -> {}

\* the keys of the installation records a trace reads, writes or deletes
InstallationKeysOf(trace) ==
  {trace[j].a[2] : j \in {k \in DOMAIN trace : /\ trace[k].op \in {"Read", "Delete"}
                                              /\ trace[k].a[1] = ItemTypeInstallations}}
  \cup
  {trace[j].a[3] : j \in {k \in DOMAIN trace : /\ trace[k].op = "Save"
                                              /\ trace[k].a[1] = ItemTypeInstallations}}

\* C38: a step of SaveClaim, SaveResult or DeleteInstallation reads, writes
\* and deletes no installation record but the one keyed by the bare name of
\* its installation, and every installation record under another key, the
\* record of the same name in a namespace included, is after the step what
\* it was before, none added.
C38_GlobalNamespaceOnly ==
  [][(ops' = ops + 1 /\ last'.op \in {"SaveClaim", "SaveResult", "DeleteInstallation"}) =>
       LET names == NamesOf(last'.op, last'.arg) IN
       /\ InstallationKeysOf(Trace(store, Req(last'.op, <<last'.arg>>))) \subseteq names
       /\ (DOMAIN store'[ItemTypeInstallations]) \ names
            = (DOMAIN store[ItemTypeInstallations]) \ names
       /\ \A key \in (DOMAIN store[ItemTypeInstallations]) \ names :
            store'[ItemTypeInstallations][key] = store[ItemTypeInstallations][key]]_vars

\* DeleteInstallation("foo") has deleted foo of the global namespace, and
\* foo of myns is stored as it was saved
C38_Witness ==
  /\ last.op = "DeleteInstallation" /\ last.arg = Foo /\ last.err = Nil
  /\ Foo \notin DOMAIN store[ItemTypeInstallations]
  /\ InstallationKey(MyNamespace, Foo) = MyNamespace \o <<Slash>> \o Foo
  /\ InstallationKey(MyNamespace, Foo) \in DOMAIN store[ItemTypeInstallations]
  /\ store[ItemTypeInstallations][InstallationKey(MyNamespace, Foo)].data.json = NamespacedFoo

----------------------------------------------------------------------------

(* Driver.Run of the Kubernetes driver: the secret and the job it creates  *)
(* and the deletes it defers.  Each step is one statement of Run that can  *)
(* fail; whether it fails is the choice of the environment.                *)

SecretName == "job-env-1"
JobName == "job-1"

\* a job whose status is watched may never report: Run then never returns
WatchOutcomes == {"nil", "error", "never returns"}

\* "if !k.SkipCleanup { defer ... }" with the cleanup deferred in any case
Defer_Always(k, deferred, fn) == Append(deferred, fn)

\* "if !k.SkipCleanup { defer k.deleteSecret(name) }", and the same for the job
Defer(k, deferred, fn) == IF k.SkipCleanup THEN deferred ELSE Append(deferred, fn)

\* the clients of the cluster: Create adds the object, Delete removes it
ClientCall(d, client, verb, name, ok) ==
  [d EXCEPT !.calls = Append(@, [client |-> client, verb |-> verb, name |-> name, ok |-> ok]),
            ![client] = IF ~ok THEN @
                        ELSE IF verb = "Create" THEN @ \cup {name} ELSE @ \ {name}]

\* a return statement: the deferred calls run next
Return(d, err) == [d EXCEPT !.pc = "deferred", !.err = err]

InitRun ==
  /\ emptyGroupIsError = FALSE /\ listReversed = FALSE /\ crypto = "noop"
  /\ store = EmptyStore
  /\ last = [op |-> "call", arg |-> << >>, err |-> Nil]
  /\ recording = TRUE
  /\ ops = 0
  /\ pc = << >> /\ call = << >> /\ held = << >> /\ local = << >> /\ calls = << >>
  /\ inst0 = << >>
  /\ \E SkipCleanup \in BOOLEAN, skipJobStatusCheck \in BOOLEAN,
        Environment \in {EmptyMap, [e \in {"CNAB_ACTION"} |-> "install"]},
        Files \in SUBSET {"/cnab/app/a", "/cnab/app/b"} :
       driver = [pc |-> "initJobVolumes",
                 k |-> [SkipCleanup |-> SkipCleanup, skipJobStatusCheck |-> skipJobStatusCheck],
                 op |-> [Environment |-> Environment, Files |-> Files],
                 written |-> {}, deferred |-> << >>, opErr |-> << >>, err |-> Nil,
                 secrets |-> {}, jobs |-> {}, calls |-> << >>]

Step(d) ==
  /\ driver' = d
  /\ UNCHANGED <<store, backing, last, recording, ops, pc, call, held, local, calls, inst0>>

\* initJobVolumes, then imageWithDigest: nothing is created yet
RunPrepare ==
  /\ driver.pc \in {"initJobVolumes", "imageWithDigest"}
  /\ \E ok \in BOOLEAN :
       Step(IF ~ok THEN Return(driver, driver.pc)
            ELSE [driver EXCEPT !.pc = IF @ = "initJobVolumes" THEN "imageWithDigest"
                                       ELSE "secrets.Create"])

\* "if len(op.Environment) > 0 { secret, err := k.secrets.Create(secret) ... }"
RunCreateSecret ==
  /\ driver.pc = "secrets.Create"
  /\ IF driver.op.Environment = EmptyMap
     THEN Step([driver EXCEPT !.pc = "WriteFile"])
     ELSE \E ok \in BOOLEAN :
            LET created == ClientCall(driver, "secrets", "Create", SecretName, ok) IN
            Step(IF ~ok THEN Return(created, "secrets.Create")
                 ELSE [created EXCEPT !.pc = "WriteFile",
                                      !.deferred = Defer(driver.k, @, <<"secrets", SecretName>>)])

\* the loop over op.Files, one file a step, in the order range takes them
RunWriteFile ==
  /\ driver.pc = "WriteFile"
  /\ IF driver.written = driver.op.Files
     THEN Step([driver EXCEPT !.pc = "jobs.Create"])
     ELSE \E f \in driver.op.Files \ driver.written, ok \in BOOLEAN :
            Step(IF ~ok THEN Return(driver, "WriteFile")
                 ELSE [driver EXCEPT !.written = @ \cup {f}])

\* "job, err = k.jobs.Create(job)"
RunCreateJob ==
  /\ driver.pc = "jobs.Create"
  /\ \E ok \in BOOLEAN :
       LET created == ClientCall(driver, "jobs", "Create", JobName, ok) IN
       Step(IF ~ok THEN Return(created, "jobs.Create")
            ELSE [created EXCEPT !.pc = "watchJobStatusAndLogs",
                                 !.deferred = Defer(driver.k, @, <<"jobs", JobName>>)])

\* "if !k.skipJobStatusCheck { err = k.watchJobStatusAndLogs(..) }"
RunWatchJob ==
  /\ driver.pc = "watchJobStatusAndLogs"
  /\ IF driver.k.skipJobStatusCheck
     THEN Step([driver EXCEPT !.pc = "fetchOutputs"])
     ELSE \E outcome \in WatchOutcomes :
            Step(CASE outcome = "nil" -> [driver EXCEPT !.pc = "fetchOutputs"]
                   [] outcome = "error" ->
                        [driver EXCEPT !.pc = "fetchOutputs", !.opErr = Append(@, "job failed")]
                   [] OTHER -> [driver EXCEPT !.pc = "watching"])

\* "opResult, err := k.fetchOutputs(op)" and "return opResult, opErr.ErrorOrNil()"
RunFetchOutputs ==
  /\ driver.pc = "fetchOutputs"
  /\ \E ok \in BOOLEAN :
       LET opErr == IF ok THEN driver.opErr ELSE Append(driver.opErr, "fetchOutputs") IN
       Step(Return([driver EXCEPT !.opErr = opErr], IF opErr = << >> THEN Nil ELSE "opErr"))

\* the deferred calls, last deferred first; then Run has returned
RunDeferred ==
  /\ driver.pc = "deferred"
  /\ IF driver.deferred = << >>
     THEN Step([driver EXCEPT !.pc = "returned"])
     ELSE LET fn == driver.deferred[Len(driver.deferred)] IN
          Step([ClientCall(driver, fn[1], "Delete", fn[2], TRUE)
                  EXCEPT !.deferred = SubSeq(@, 1, Len(@) - 1)])

NextRun ==
  \/ RunPrepare
  \/ RunCreateSecret
  \/ RunWriteFile
  \/ RunCreateJob
  \/ RunWatchJob
  \/ RunFetchOutputs
  \/ RunDeferred

SpecRun == InitRun /\ [][NextRun]_vars

\* the positions of the calls of a kind in the calls the clients received
CallsOf(client, verb) ==
  {j \in DOMAIN driver.calls : /\ driver.calls[j].client = client
                               /\ driver.calls[j].verb = verb /\ driver.calls[j].ok}

----------------------------------------------------------------------------

(* watchJobStatusAndLogs and the goroutine of streamPodLogs.  The channel   *)
(* logsStreamingComplete has no buffer: a send and the receive happen in   *)
(* one step.  What the two watches deliver is the choice of the             *)
(* environment: the events of the job end with one that carries a Complete *)
(* or a Failed condition.                                                  *)

MaxPodEvents == 2

\* an event of the pod watch: of the pod p1, of the pod p2, or of an object
\* that is no pod
PodEvents == {"p1", "p2", "no pod"}
PodEventSeqs == UNION {[1..n -> PodEvents] : n \in 0..MaxPodEvents}

\* the conditions of the job in the events of the job watch
JobEventSeqs == {<<"Complete">>, <<"Failed">>, <<"", "Complete">>, <<"", "Failed">>}

InitWatch ==
  /\ emptyGroupIsError = FALSE /\ listReversed = FALSE /\ crypto = "noop"
  /\ store = EmptyStore
  /\ last = [op |-> "call", arg |-> << >>, err |-> Nil]
  /\ recording = TRUE
  /\ ops = 0
  /\ pc = << >> /\ call = << >> /\ held = << >> /\ local = << >> /\ calls = << >>
  /\ inst0 = << >>
  /\ \E podEvents \in PodEventSeqs, jobEvents \in JobEventSeqs :
       driver = [main |-> "streamPodLogs", logs |-> "not started",
                 podEvents |-> podEvents, jobEvents |-> jobEvents,
                 streamedLogs |-> {}, podName |-> "", reported |-> FALSE, err |-> Nil]

\* "err := k.streamPodLogs(..)": k.pods.Watch, then "go func() {..}()"
WatchStreamPodLogs ==
  /\ driver.main = "streamPodLogs"
  /\ \E ok \in BOOLEAN :
       Step(IF ~ok THEN [driver EXCEPT !.main = "returned", !.err = "pods.Watch"]
            ELSE [driver EXCEPT !.main = "jobs.Watch", !.logs = "range"])

\* "watch, err := k.jobs.Watch(jobSelector)"
WatchJobs ==
  /\ driver.main = "jobs.Watch"
  /\ \E ok \in BOOLEAN :
       Step(IF ~ok THEN [driver EXCEPT !.main = "returned", !.err = "jobs.Watch"]
            ELSE [driver EXCEPT !.main = "range"])

\* "for event := range watch.ResultChan()": one event of the job
WatchJobEvent ==
  /\ driver.main = "range" /\ driver.jobEvents # << >>
  /\ LET cond == Head(driver.jobEvents) IN
     Step([driver EXCEPT !.jobEvents = Tail(@),
                         !.err = IF cond = "Failed" THEN "job failed" ELSE @,
                         !.reported = cond \in {"Complete", "Failed"},
                         !.main = IF cond \in {"Complete", "Failed"} THEN "receive" ELSE @])

\* "for event := range watcher.ResultChan()" of the goroutine: one event
LogsPodEvent ==
  /\ driver.logs = "range" /\ driver.podEvents # << >>
  /\ LET event == Head(driver.podEvents) IN
     Step([driver EXCEPT !.podEvents = Tail(@),
                         !.podName = IF event = "no pod" THEN @ ELSE event,
                         !.logs = IF event = "no pod" \/ event \in driver.streamedLogs
                                  THEN "range" ELSE "GetLogs"])

\* the loop of numBackoffLoops attempts: the logs were streamed in one of
\* them, or in none
LogsStream ==
  /\ driver.logs = "GetLogs"
  /\ \E streamed \in BOOLEAN :
       Step([driver EXCEPT !.streamedLogs = IF streamed THEN @ \cup {driver.podName} ELSE @,
                           !.logs = "send"])

\* "done <- true" of the goroutine meets "<-logsStreamingComplete"; then
\* "return err"
LogsStreamingComplete ==
  /\ driver.logs = "send" /\ driver.main = "receive"
  /\ Step([driver EXCEPT !.logs = "range", !.main = "returned"])

NextWatch ==
  \/ WatchStreamPodLogs
  \/ WatchJobs
  \/ WatchJobEvent
  \/ LogsPodEvent
  \/ LogsStream
  \/ LogsStreamingComplete

\* a goroutine that can run does run
SpecWatch == InitWatch /\ [][NextWatch]_vars /\ WF_vars(NextWatch)

\* C40: once the job has reported a Complete or a Failed condition,
\* watchJobStatusAndLogs eventually returns, whatever events of pods the
\* watcher delivers; and the goroutine that streams the logs is not, from
\* some point on, forever about to send its completion signal.
C40_WatchReturns ==
  /\ (driver.reported ~> driver.main = "returned")
  /\ []<>(driver.logs # "send")

----------------------------------------------------------------------------

----------------------------------------------------------------------------
(* Concurrent callers of SaveClaim and SaveResult on one Store value.  A   *)
(* call runs in steps, one per backing-store access.  The methods have     *)
(* value receivers, so every call works on its own copy of the Store, the  *)
(* lock included: held[p] is the state of the lock of the copy of call p.  *)

Procs == {1, 2}

FooClaims == {c \in ClaimDocs : c.Installation = Foo}
FooResults == {r \in ResultDocs : r.claim # NilClaim}

InitConc ==
  /\ emptyGroupIsError \in BOOLEAN
  /\ listReversed = FALSE
  /\ crypto \in {"noop", "b64"}
  /\ \E k \in {1, 3, 6} : store = Replay(k)
  /\ last = [op |-> "NewClaimStore", arg |-> << >>, err |-> Nil]
  /\ recording = FALSE
  /\ ops = 0
  /\ pc = [p \in Procs |-> "idle"]
  /\ call = [p \in Procs |-> [op |-> "none", arg |-> << >>, err |-> Nil]]
  /\ held = [p \in Procs |-> FALSE]
  /\ local = [p \in Procs |-> << >>]
  /\ calls = [p \in Procs |-> 0]
  /\ inst0 = InstallationOf(Foo).val
  /\ driver = << >>

\* the claim whose action decides whether the call updates the installation
ClaimOfCall(cl) == IF cl.op = "SaveClaim" THEN <<cl.arg>> ELSE cl.arg.claim

ModifiesInstallation(cl) ==
  ClaimOfCall(cl) # NilClaim /\ IsModifyingAction(ClaimOfCall(cl)[1])

\* the update of the installation the call makes
UpdateOf(cl, i) ==
  IF cl.op = "SaveClaim" THEN ApplyClaim(i, cl.arg) ELSE ApplyResult(i, cl.arg)

\* SaveClaim(c) or SaveResult(r) is called: the receiver is copied
Call(p) ==
  /\ pc[p] \in {"idle", "done"}
  /\ calls[p] < MaxCalls
  /\ \E cl \in [op : {"SaveClaim"}, arg : FooClaims, err : {Nil}]
              \cup [op : {"SaveResult"}, arg : FooResults, err : {Nil}] :
       call' = [call EXCEPT ![p] = cl]
  /\ calls' = [calls EXCEPT ![p] = @ + 1]
  /\ held' = [held EXCEPT ![p] = FALSE]
  /\ pc' = [pc EXCEPT ![p] = "save"]
  /\ UNCHANGED <<store, backing, last, recording, ops, local, inst0, driver>>

\* crud.SaveDocument of the claim or result
SaveDoc(p) ==
  /\ pc[p] = "save"
  /\ LET saved == SaveDocument(store, IF call[p].op = "SaveClaim"
                                       THEN ClaimDoc(call[p].arg) ELSE ResultDoc(call[p].arg))
     IN /\ store' = saved.st
        /\ IF saved.err # Nil
           THEN /\ pc' = [pc EXCEPT ![p] = "done"]
                /\ call' = [call EXCEPT ![p].err = saved.err]
           ELSE /\ pc' = [pc EXCEPT ![p] = IF ModifiesInstallation(call[p])
                                            THEN "lock" ELSE "done"]
                /\ call' = call
  /\ UNCHANGED <<backing, last, recording, ops, held, local, calls, inst0, driver>>

\* s.lock.Lock()
Lock(p) ==
  /\ pc[p] = "lock"
  /\ ~held[p]
  /\ held' = [held EXCEPT ![p] = TRUE]
  /\ pc' = [pc EXCEPT ![p] = "read"]
  /\ UNCHANGED <<store, backing, last, recording, ops, call, local, calls, inst0, driver>>

\* s.ReadInstallation; on an error the deferred Unlock runs and the call returns
ReadInst(p) ==
  /\ pc[p] = "read"
  /\ LET i == ReadInstallation(store, NamespaceGlobal, ClaimOfCall(call[p])[1].Installation)
     IN IF i.err # Nil
        THEN /\ call' = [call EXCEPT ![p].err = i.err]
             /\ held' = [held EXCEPT ![p] = FALSE]
             /\ pc' = [pc EXCEPT ![p] = "done"]
             /\ local' = local
        ELSE /\ local' = [local EXCEPT ![p] = i.val]
             /\ pc' = [pc EXCEPT ![p] = "write"]
             /\ UNCHANGED <<call, held>>
  /\ UNCHANGED <<store, backing, last, recording, ops, calls, inst0, driver>>

\* i.ApplyClaim / i.ApplyResult and s.SaveInstallation, then the deferred Unlock
WriteInst(p) ==
  /\ pc[p] = "write"
  /\ LET saved == SaveInstallation(store, UpdateOf(call[p], local[p]))
     IN /\ store' = saved.st
        /\ call' = [call EXCEPT ![p].err = saved.err]
  /\ held' = [held EXCEPT ![p] = FALSE]
  /\ pc' = [pc EXCEPT ![p] = "done"]
  /\ UNCHANGED <<backing, last, recording, ops, local, calls, inst0, driver>>

NextConc == \E p \in Procs : Call(p) \/ SaveDoc(p) \/ Lock(p) \/ ReadInst(p) \/ WriteInst(p)

SpecConc == InitConc /\ [][NextConc]_vars

\* C4: two concurrent calls of SaveClaim or SaveResult for modifying
\* actions on one Store value never interleave their read-modify-write of
\* the installation: at most one call is between its ReadInstallation and
\* its SaveInstallation.
C4_ReadModifyWriteExclusive ==
  Cardinality({p \in Procs : pc[p] = "write"}) <= 1

\* C5: when two modifying writes to one installation have run concurrently
\* and both returned without error, the installation record is the one that
\* applying the two status updates one after the other, in one of the two
\* orders, gives: neither update is lost.
C5_SomeSerialization ==
  (/\ \A p \in Procs : pc[p] = "done" /\ calls[p] = 1 /\ call[p].err = Nil
   /\ \A p \in Procs : ModifiesInstallation(call[p])) =>
    InstallationOf(Foo).val \in
      {UpdateOf(call[2], UpdateOf(call[1], inst0)),
       UpdateOf(call[1], UpdateOf(call[2], inst0))}

====
